---- MODULE Spec2Model ----
(***************************************************************************)
(* The lemonade server test harness: test/utils/server_base.py (the        *)
(* run_server_tests runner, ServerTestBase, start_server, wait_for_server, *)
(* stop_lemonade) and test/server_system_info.py (the hardware-fixture     *)
(* tests), together with the external server processes they launch.        *)
(* The harness is one sequential thread (pc); the server processes, the    *)
(* systemd service and the relay threads run concurrently with it.         *)
(***************************************************************************)
EXTENDS Integers, Sequences, FiniteSets, TLC

\* ------------------------------------------------------------------ bounds
\* Test methods of the class under test.
MaxTests == 2
\* Lines an output pipe holds before a write to it blocks.
PipeCap == 1
\* wait_for_server's timeout, in backoff intervals of one second (the code's
\* default is 60; the loop is the same for every bound).
MaxWait == 1
\* Largest timeout argument given to wait_for_server when it is checked alone.
MaxTimeoutArg == 3
\* Longest a single connection attempt takes, in seconds.
MaxConnDelay == 2
\* time.sleep(1): the backoff between two connection attempts, in seconds.
Backoff == 1
\* Longest answer of the model to the test's prompt, in characters.
MaxChars == 6
\* Longest output of "<binary> --version", in tokens and runs of blanks.
MaxTokens == 4

None == "None"
Bin == "lemonade-server"
Pids == 1..MaxTests
Streams == {"stdout", "stderr"}

\* ------------------------------------------------------------------ state
VARIABLES
    suite,            \* the program run: "server" (run_server_tests) or "fixture" (server_system_info.py)
    platform,         \* sys.platform
    machine,          \* platform.machine().lower()
    binVersion,       \* the version of the server binary under test
    environ,          \* names set in os.environ, among those the harness treats
    server_binary,    \* _config["server_binary"]
    server_per_test,  \* _config["server_per_test"]
    wrapped_server,   \* _config["wrapped_server"], the server the capability gate looks up
    numTests,         \* test methods of the class under test
    pc,               \* position of the harness thread
    ctx,              \* caller of the start_server in progress: "class", "test" or "none"
    testIdx,          \* test methods finished so far
    shouldStop,       \* result.shouldStop (failfast)
    failed,           \* the result holds a failure or an error
    exc,              \* exception propagating out of the run
    exitCode,         \* exit status of the harness process, -1 while it runs
    proc,             \* launched children: "none", "starting", "listening", "exited"
    relay,            \* per child: the two reader threads were started
    reader,           \* per child and stream: the reader thread, "none", "running",
                      \* "eof", "swallowed" (ended by a caught error) or "crashed"
    pipe,             \* per child and stream: lines waiting in the pipe
    svc,              \* the systemd service lemonade-server is active
    spawned,          \* children launched so far
    handle,           \* the Popen object held by the current scope, 0 for none
    elapsed,          \* seconds slept by the wait_for_server in progress
    probeOK,          \* the current launch saw its readiness probe accepted
    settled,          \* the current launch had its settle delay
    firstReq,         \* first request since the launch: "none", "settled", "unsettled"
    lastStop,         \* what the last stop call did
    stopsInRow,       \* stop calls since the last launch (capped at 2)
    stopSinceBody,    \* a stop was invoked since the last test body (or the run's start)
    cacheDirs,        \* mock cache directories existing now
    lastTest,         \* the last test method: its feature, the gate's lookup, its outcome
    skipped,          \* tests skipped so far
    server_version,   \* SystemInfoMockTests.server_version, a string as its tokens
    fxTest,           \* the fixture test in progress, or the last one: what it did
    life,             \* how often each hook of ServerTestBase ran, called
                      \* start_server and called stop_lemonade
    call,             \* a function of the harness called by itself: its name and arguments
    ret,              \* what that call returned
    server,           \* a running server: its loaded models, least recently used
                      \* first, the last request it served, its answer to the
                      \* test's prompt, and how far its open stream has got
    client,           \* the test method of LLMTests talking to that server
    w_pc,             \* a lone call of wait_for_server: "idle", "loop" or "done"
    w_timeout,        \* its timeout argument
    w_open,           \* whether the port accepts connections now
    w_now,            \* time.time() - start_time
    w_conn,           \* its last connection attempt: "none", "accepted", "refused"
    w_refused,        \* connection attempts refused so far
    w_slept,          \* seconds it has slept in its backoff
    w_result          \* "none", "True", or the TimeoutError with the bound it carries

vars == << suite, platform, machine, binVersion, environ, server_binary, server_per_test, wrapped_server, numTests, pc, ctx, testIdx,
           shouldStop, failed, exc, exitCode, proc, relay, reader, pipe, svc, spawned,
           handle, elapsed, probeOK, settled, firstReq, lastStop, stopsInRow,
           stopSinceBody, cacheDirs, lastTest, skipped, server_version, fxTest, life,
           call, ret, server, client,
           w_pc, w_timeout, w_open, w_now, w_conn, w_refused, w_slept, w_result >>

waitVars == << w_pc, w_timeout, w_open, w_now, w_conn, w_refused, w_slept, w_result >>
\* What no step of a test run changes.
callVars == << call, ret >>
apiVars == << server, client >>
otherVars == << numTests, machine, binVersion, environ, waitVars, callVars, apiVars >>
envVars == << proc, relay, reader, pipe, svc, spawned >>
cfgVars == << suite, platform, server_binary, server_per_test, wrapped_server >>

\* ------------------------------------------------------- the environment
Alive(p) == proc[p] \in {"starting", "listening"}
AliveSet == {p \in Pids : Alive(p)}
Listener == {p \in Pids : proc[p] = "listening"}
\* The port accepts a connection: some server process is listening on it.
PortOpen == Listener # {} \/ svc

EmptyPipes == [s \in Streams |-> 0]

\* Outcomes of one subprocess.run: a return code or a raised exception.
Excs == {"OSError", "TimeoutExpired"}
RunOutcomes == {"rc0", "rcN"} \cup Excs

\* What "systemctl is-active" can answer, given the state of the service.
IsActiveOutcomes == IF svc THEN {"rc0", "TimeoutExpired"}
                    ELSE {"rcN", "OSError", "TimeoutExpired"}

\* The children in S exit: their pipes close and their readers reach EOF.
ProcAfterExit(S) == [p \in Pids |-> IF p \in S THEN "exited" ELSE proc[p]]
PipeAfterExit(S) == [p \in Pids |-> IF p \in S THEN EmptyPipes ELSE pipe[p]]
RelayAfterExit(S) == [p \in Pids |-> IF p \in S THEN FALSE ELSE relay[p]]
\* A reader still in its loop leaves it at end of file.
ReaderAfterExit(S) ==
    [p \in Pids |-> [s \in Streams |->
        IF p \in S /\ reader[p][s] = "running" THEN "eof" ELSE reader[p][s]]]

\* Errors that can end a reader's loop: a read of a closed pipe, a print to
\* a broken stdout.
RelayErrs == {"ValueError", "OSError"}
\* Exceptions the except clause of print_stdout / print_stderr absorbs: every
\* Exception.
RelayCaught == {"ValueError", "OSError"}

\* RelayDaemon with the threads created without daemon=True.
RelayNotDaemon == FALSE

\* Thread(target=..., daemon=True): both readers are daemon threads.
RelayDaemon == TRUE

\* The interpreter can exit: it waits for every thread that is not a daemon.
CanExit ==
    RelayDaemon \/ \A p \in Pids, s \in Streams : reader[p][s] # "running"

\* ------------------------------------------------------ capability gate
\* Wrapped servers the command line accepts: the keys of the matrix.
WrappedChoices == {"llamacpp"}
\* A wrapped server the matrix does not list, given to run_server_tests by
\* its caller.
Unlisted == "unlisted"
\* Features tests are decorated with; the last is in no row of the matrix.
Features == {"chat_completions", "tool_calls", "unconfigured_feature"}

\* The capability matrix: per wrapped server, the features it lists and
\* whether each is supported.
CapabilityMatrix ==
    [ws \in WrappedChoices |-> [chat_completions |-> TRUE, tool_calls |-> FALSE]]

Configured(ws, feat) ==
    ws \in DOMAIN CapabilityMatrix /\ feat \in DOMAIN CapabilityMatrix[ws]

\* Supports with the matrix read by plain indexing: an absent key raises.
SupportsIndexing(ws, feat) ==
    IF ~Configured(ws, feat) THEN "KeyError"
    ELSE IF CapabilityMatrix[ws][feat] THEN "supported" ELSE "unsupported"

\* The lookup of the gate: total, an unconfigured pair is unsupported.
Supports(ws, feat) ==
    IF ~Configured(ws, feat) THEN "unsupported"
    ELSE IF CapabilityMatrix[ws][feat] THEN "supported" ELSE "unsupported"

\* What a test method can come to, given the lookup of its decorator (none
\* for an undecorated method): a skip when unsupported, an error when the
\* lookup raises.
GateOutcomes(lookup) ==
    CASE lookup \in {"none", "supported"} -> {"pass", "fail"}
      [] lookup = "unsupported" -> {"skip"}
      [] OTHER -> {"error"}

\* ------------------------------------------------------------ stopping
\* Exceptions the except clause of _stop_server_via_systemd absorbs.
SystemdCaught == {"OSError", "TimeoutExpired"}

\* StopViaSystemd without the is-active query: it runs "systemctl stop"
\* whatever the state of the service.
StopViaSystemdNoQuery(plat, isActive, sysStop) ==
    IF plat # "linux"
    THEN [ret |-> FALSE, raised |-> FALSE, absorbed |-> FALSE, probed |-> FALSE,
          cmds |-> << >>]
    ELSE IF sysStop \in Excs
    THEN [ret |-> FALSE, raised |-> sysStop \notin SystemdCaught,
          absorbed |-> sysStop \in SystemdCaught, probed |-> TRUE,
          cmds |-> << "stop" >>]
    ELSE [ret |-> sysStop = "rc0", raised |-> FALSE, absorbed |-> FALSE,
          probed |-> TRUE, cmds |-> << "stop" >>]

\* _stop_server_via_systemd: ret is its return value, raised whether an
\* exception leaves it, absorbed whether it caught one, probed whether it ran
\* any command (it runs none off Linux), cmds the systemctl commands it ran.
StopViaSystemd(plat, isActive, sysStop) ==
    IF plat # "linux"
    THEN [ret |-> FALSE, raised |-> FALSE, absorbed |-> FALSE, probed |-> FALSE,
          cmds |-> << >>]
    ELSE IF isActive \in Excs
    THEN [ret |-> FALSE, raised |-> isActive \notin SystemdCaught,
          absorbed |-> isActive \in SystemdCaught, probed |-> TRUE,
          cmds |-> << "is-active" >>]
    ELSE IF isActive # "rc0"
    THEN [ret |-> FALSE, raised |-> FALSE, absorbed |-> FALSE, probed |-> TRUE,
          cmds |-> << "is-active" >>]
    ELSE IF sysStop \in Excs
    THEN [ret |-> FALSE, raised |-> sysStop \notin SystemdCaught,
          absorbed |-> sysStop \in SystemdCaught, probed |-> TRUE,
          cmds |-> << "is-active", "stop" >>]
    ELSE [ret |-> sysStop = "rc0", raised |-> FALSE, absorbed |-> FALSE,
          probed |-> TRUE, cmds |-> << "is-active", "stop" >>]

\* CliCaught with the second except clause (except Exception) left out.
CliCaughtTimeoutOnly == {"TimeoutExpired"}

\* Exceptions the two except clauses around "<binary> stop" absorb:
\* TimeoutExpired, then every Exception.
CliCaught == {"TimeoutExpired", "OSError"}

\* stop_lemonade without the return after a successful systemd stop: it goes
\* on to "<binary> stop".
StopLemonadeNoEarlyReturn(binary, plat, isActive, sysStop, cli) ==
    IF binary = None
    THEN [attempts |-> << >>, raised |-> FALSE, absorbed |-> FALSE, won |-> "none",
          svcStopped |-> FALSE, cliStopped |-> FALSE]
    ELSE LET a == StopViaSystemd(plat, isActive, sysStop)
             pre == IF a.probed THEN << "systemd" >> ELSE << >>
         IN  [attempts |-> pre \o << "cli" >>,
              raised |-> a.raised \/ (cli \in Excs /\ cli \notin CliCaught),
              absorbed |-> a.absorbed \/ cli \in (Excs \cap CliCaught),
              won |-> IF a.ret THEN "systemd" ELSE IF cli = "rc0" THEN "cli" ELSE "none",
              svcStopped |-> a.ret, cliStopped |-> cli = "rc0"]

\* stop_lemonade: the strategies it attempts in order, whether it raises,
\* which strategy answered that the server stopped (a return code of 0; the
\* code reads that of systemctl only), and its effect on the servers.
StopLemonadeResult(binary, plat, isActive, sysStop, cli) ==
    IF binary = None
    THEN [attempts |-> << >>, raised |-> FALSE, absorbed |-> FALSE, won |-> "none",
          svcStopped |-> FALSE, cliStopped |-> FALSE]
    ELSE LET a == StopViaSystemd(plat, isActive, sysStop)
             pre == IF a.probed THEN << "systemd" >> ELSE << >>
         IN  IF a.raised
             THEN [attempts |-> pre, raised |-> TRUE, absorbed |-> FALSE,
                   won |-> "none", svcStopped |-> FALSE, cliStopped |-> FALSE]
             ELSE IF a.ret
             THEN [attempts |-> pre, raised |-> FALSE, absorbed |-> FALSE,
                   won |-> "systemd", svcStopped |-> TRUE, cliStopped |-> FALSE]
             ELSE [attempts |-> pre \o << "cli" >>,
                   raised |-> cli \in Excs /\ cli \notin CliCaught,
                   absorbed |-> a.absorbed \/ cli \in (Excs \cap CliCaught),
                   won |-> IF cli = "rc0" THEN "cli" ELSE "none",
                   svcStopped |-> FALSE, cliStopped |-> cli = "rc0"]

Min(a, b) == IF a < b THEN a ELSE b

InSeq(x, sq) == \E i \in 1..Len(sq) : sq[i] = x

\* What a call of stop_lemonade() that went as r does to the servers. A
\* "<binary> stop" that returns 0 has stopped the server listening on the
\* port; any other outcome leaves the servers as they are.
StopLemonadeDoes(r) ==
    LET gone == IF r.cliStopped THEN Listener ELSE {}
    IN  /\ lastStop' = [fn |-> "stop_lemonade", binary |-> server_binary,
                        attempts |-> r.attempts, raised |-> r.raised,
                        absorbed |-> r.absorbed, won |-> r.won]
        /\ svc' = (svc /\ ~r.svcStopped /\ ~r.cliStopped)
        /\ proc' = ProcAfterExit(gone)
        /\ pipe' = PipeAfterExit(gone)
        /\ relay' = RelayAfterExit(gone)
        /\ reader' = ReaderAfterExit(gone)
        /\ stopsInRow' = Min(2, stopsInRow + 1)
        /\ stopSinceBody' = TRUE
        /\ UNCHANGED spawned

\* A call of stop_lemonade() by the harness thread, with the outcomes of the
\* commands it runs.
StopLemonade(isActive, sysStop, cli) ==
    StopLemonadeDoes(StopLemonadeResult(server_binary, platform, isActive, sysStop, cli))

\* The ways a call of stop_lemonade() can go, over the outcomes of every
\* command it may run ("systemctl stop" has an outcome only after an
\* is-active that answered 0 on Linux).
StopLemonadeResults ==
    UNION {UNION {{StopLemonadeResult(server_binary, platform, isActive, sysStop, cli) :
                      cli \in RunOutcomes} :
                  sysStop \in (IF isActive = "rc0" THEN RunOutcomes ELSE {"rcN"})} :
           isActive \in (IF platform = "linux" THEN IsActiveOutcomes ELSE {"rcN"})}

\* Some call of stop_lemonade().
SomeStopLemonade == \E r \in StopLemonadeResults : StopLemonadeDoes(r)

\* ------------------------------------------------------------ readiness
\* WaitStep with the timeout check written >= instead of >.
WaitStepEager(waited, timeout, open) ==
    IF waited >= timeout THEN "TimeoutError"
    ELSE IF open THEN "True"
    ELSE "retry"

\* WaitStep with the timeout check allowing one more backoff interval.
WaitStepLate(waited, timeout, open) ==
    IF waited > timeout + Backoff THEN "TimeoutError"
    ELSE IF open THEN "True"
    ELSE "retry"

\* One pass of wait_for_server's loop, `waited` seconds after its start: the
\* timeout check, then one connection attempt; "retry" is the refused
\* attempt, followed by the backoff.
WaitStep(waited, timeout, open) ==
    IF waited > timeout THEN "TimeoutError"
    ELSE IF open THEN "True"
    ELSE "retry"

\* ------------------------------------------------------------------ Init
NoStop == [fn |-> "none", binary |-> None, attempts |-> << >>, raised |-> FALSE,
           absorbed |-> FALSE, won |-> "none"]

NoWait ==
    /\ w_pc = "idle" /\ w_timeout = 0 /\ w_open = FALSE /\ w_now = 0
    /\ w_conn = "none" /\ w_refused = 0 /\ w_slept = 0
    /\ w_result = [kind |-> "none", bound |-> 0]

NoTest == [feature |-> None, ws |-> None, lookup |-> "none", outcome |-> "none"]

NoHooks == [classSetUps |-> 0, classStarts |-> 0, setUps |-> 0, setUpStarts |-> 0,
            setUpStops |-> 0, tearDowns |-> 0, tearDownStops |-> 0,
            classEnds |-> 0, classEndStops |-> 0, startTimeouts |-> 0]

\* A fixture test that did nothing yet.
NoFx == [name |-> "none", mismatch |-> FALSE, dir |-> FALSE, exists |-> FALSE,
         doc |-> FALSE, tag |-> << >>, env |-> << >>, launched |-> FALSE, pid |-> 0,
         asserted |-> FALSE, steps |-> << >>, delay |-> 0, rmCalls |-> 0,
         rm |-> "none", done |-> FALSE]

\* No function called by itself.
NoCall == call = [fn |-> "none"] /\ ret = [fn |-> "none"]

\* No test method talking to a server.
NoClient == [test |-> "none", step |-> 0, health |-> << >>, status |-> "none",
             complete_response |-> << >>, event_count |-> 0,
             last_event_type |-> "", verdict |-> "none", failed_at |-> "none"]
\* No request served yet.
NoRequest == [op |-> "none", model |-> None, status |-> "none", evicted |-> None]
NoServer == [loaded |-> << >>, last |-> NoRequest, answer |-> << >>,
             stream |-> "none", sent |-> 0]
NoApi == server = NoServer /\ client = NoClient

\* The state once the module is imported, before the first test run.
InitState ==
    /\ NoWait
    /\ NoCall
    /\ NoApi
    /\ server_binary = None
    /\ server_per_test = FALSE
    /\ pc = "import"
    /\ ctx = "none"
    /\ testIdx = 0
    /\ shouldStop = FALSE
    /\ failed = FALSE
    /\ exc = "none"
    /\ exitCode = -1
    /\ proc = [p \in Pids |-> "none"]
    /\ relay = [p \in Pids |-> FALSE]
    /\ reader = [p \in Pids |-> [s \in Streams |-> "none"]]
    /\ pipe = [p \in Pids |-> EmptyPipes]
    /\ spawned = 0
    /\ handle = 0
    /\ elapsed = 0
    /\ probeOK = FALSE
    /\ settled = FALSE
    /\ firstReq = "none"
    /\ lastStop = NoStop
    /\ stopsInRow = 0
    /\ stopSinceBody = FALSE
    /\ cacheDirs = 0
    /\ life = NoHooks
    /\ wrapped_server = None
    /\ lastTest = NoTest
    /\ skipped = 0
    /\ server_version = << >>
    /\ fxTest = NoFx

\* A run of either program on a Linux or a Windows x86_64 host, with none of
\* the harness's environment variables set.
InitRun ==
    /\ InitState
    /\ suite \in {"server", "fixture"}
    /\ platform \in {"linux", "win32"}
    /\ svc \in (IF platform = "linux" THEN BOOLEAN ELSE {FALSE})
    /\ machine = "x86_64"
    /\ binVersion = "10.2.1"
    /\ environ = {}

Init == InitRun /\ numTests \in 1..MaxTests

runVars == << ctx, testIdx, shouldStop, failed, exc, exitCode >>
tallyVars == << lastTest, skipped >>
fxVars == << server_version, fxTest >>
launchVars == << handle, elapsed, probeOK, settled, firstReq >>
stopVars == << lastStop, stopsInRow, stopSinceBody >>

\* ------------------------------------------------- run_server_tests
\* parse_args: the command line fills _config; then run_server_tests lets
\* its caller's wrapped_server argument override the command line's.
ParseArgs(perTest, ws, override) ==
    /\ suite = "server" /\ pc = "import"
    /\ server_binary' = Bin
    /\ server_per_test' = perTest
    /\ wrapped_server' = IF override # None THEN override ELSE ws
    /\ pc' = "try"
    /\ UNCHANGED << suite, platform, otherVars, runVars, envVars, launchVars,
                    stopVars, cacheDirs >>
    /\ UNCHANGED life
    /\ UNCHANGED tallyVars
    /\ UNCHANGED fxVars

\* stop_lemonade() called on the imported module, before any parse_args.
CallStopLemonade ==
    /\ suite = "server" /\ pc = "import"
    /\ SomeStopLemonade
    /\ UNCHANGED << cfgVars, otherVars, pc, runVars, launchVars, cacheDirs >>
    /\ UNCHANGED life
    /\ UNCHANGED tallyVars
    /\ UNCHANGED fxVars

\* AfterRun with the final stop after the try statement instead of in a
\* finally clause: an exception skips it.
AfterRunNoFinally(e) == IF e = "none" THEN "finally" ELSE "exited"

\* Where control goes when the try body of run_server_tests is left, with
\* exception e or with none: the finally clause, always.
AfterRun(e) == "finally"

\* runner.run(suite) begins.
RunnerRun ==
    /\ suite = "server" /\ pc = "try"
    /\ pc' = "setUpClass"
    /\ stopSinceBody' = FALSE
    /\ UNCHANGED << cfgVars, otherVars, runVars, envVars, launchVars, lastStop, stopsInRow, cacheDirs >>
    /\ UNCHANGED life
    /\ UNCHANGED tallyVars
    /\ UNCHANGED fxVars

\* StartsInSetUpClass with the test of the mode left out.
StartsInSetUpClassAlways(perTest) == TRUE

\* The lifecycle policy: setUpClass starts the server unless in per-test
\* mode; setUp starts one, and tearDown stops it, in per-test mode only.
StartsInSetUpClass(perTest) == ~perTest
StartsInSetUp(perTest) == perTest
StopsInTearDown(perTest) == perTest

Bit(b) == IF b THEN 1 ELSE 0

\* SetUpClass without its call of stop_lemonade.
SetUpClassNoStop ==
    /\ pc = "setUpClass"
    /\ IF StartsInSetUpClass(server_per_test)
       THEN pc' = "start_spawn" /\ ctx' = "class"
       ELSE pc' = "next_test" /\ ctx' = "none"
    /\ life' = [life EXCEPT !.classSetUps = @ + 1,
                            !.classStarts = @ + Bit(StartsInSetUpClass(server_per_test))]
    /\ UNCHANGED << cfgVars, otherVars, testIdx, shouldStop, failed, exc, exitCode,
                    envVars, stopVars, launchVars, cacheDirs >>
    /\ UNCHANGED tallyVars
    /\ UNCHANGED fxVars

\* ServerTestBase.setUpClass: stop any existing server, then start the
\* class-level one unless in per-test mode.
SetUpClass ==
    /\ pc = "setUpClass"
    /\ SomeStopLemonade
    /\ IF StartsInSetUpClass(server_per_test)
       THEN pc' = "start_spawn" /\ ctx' = "class"
       ELSE pc' = "next_test" /\ ctx' = "none"
    /\ life' = [life EXCEPT !.classSetUps = @ + 1,
                            !.classStarts = @ + Bit(StartsInSetUpClass(server_per_test))]
    /\ UNCHANGED << cfgVars, otherVars, testIdx, shouldStop, failed, exc, exitCode,
                    launchVars, cacheDirs >>
    /\ UNCHANGED tallyVars
    /\ UNCHANGED fxVars

\* FailFast with the runner built without failfast=True.
FailFastOff == FALSE

\* unittest.TextTestRunner(verbosity=2, buffer=False, failfast=True)
FailFast == TRUE

\* StopsRun with only an error, not a failed assertion, stopping the run.
StopsRunOnErrorOnly(outcome) == FailFast /\ outcome = "error"

\* The outcome of a test stops the run: under failfast, a failure or an error.
StopsRun(outcome) == FailFast /\ outcome \in {"fail", "error"}

\* An exception leaves start_server. In setUpClass the class is marked
\* failed: no test and no tearDownClass runs. In setUp the test is an error
\* and its tearDown does not run. failfast stops the run on either.
StartRaised ==
    /\ failed' = TRUE
    /\ shouldStop' = (shouldStop \/ FailFast)
    /\ ctx' = "none"
    /\ lastTest' = [NoTest EXCEPT !.outcome = "error"]
    /\ skipped' = skipped
    /\ IF ctx = "class"
       THEN pc' = AfterRun("none") /\ testIdx' = testIdx
       ELSE pc' = "next_test" /\ testIdx' = testIdx + 1
    /\ UNCHANGED << exc, exitCode >>

\* start_server up to the start of the relay threads: Popen with both
\* streams piped, then the two daemon readers.
StartServerSpawn(popen) ==
    /\ pc = "start_spawn" /\ spawned < MaxTests
    /\ IF popen = "OSError"
       THEN /\ StartRaised
            /\ UNCHANGED << envVars, launchVars, stopsInRow >>
       ELSE /\ spawned' = spawned + 1
            /\ proc' = [proc EXCEPT ![spawned + 1] = "starting"]
            /\ relay' = [relay EXCEPT ![spawned + 1] = TRUE]
            /\ reader' = [reader EXCEPT ![spawned + 1] = [s \in Streams |-> "running"]]
            /\ elapsed' = 0
            /\ probeOK' = FALSE
            /\ settled' = FALSE
            /\ firstReq' = "none"
            /\ stopsInRow' = 0
            /\ pc' = "start_wait"
            /\ UNCHANGED << runVars, tallyVars, pipe, svc, handle >>
    /\ UNCHANGED << cfgVars, otherVars, lastStop, stopSinceBody, cacheDirs >>
    /\ UNCHANGED life
    /\ UNCHANGED fxVars

\* start_server without the call of wait_for_server: it goes straight on.
StartServerNoWait ==
    /\ pc = "start_wait"
    /\ pc' = "start_settle"
    /\ UNCHANGED << cfgVars, otherVars, runVars, envVars, launchVars, stopVars, cacheDirs >>
    /\ UNCHANGED life
    /\ UNCHANGED tallyVars
    /\ UNCHANGED fxVars

\* start_server inside wait_for_server(port): one pass of the loop.
StartServerWait ==
    /\ pc = "start_wait"
    /\ LET r == WaitStep(elapsed, MaxWait, PortOpen)
       IN  CASE r = "TimeoutError" ->
                  /\ StartRaised
                  /\ life' = [life EXCEPT !.startTimeouts = @ + 1]
                  /\ UNCHANGED launchVars
             [] r = "True" ->
                  /\ probeOK' = TRUE
                  /\ pc' = "start_settle"
                  /\ UNCHANGED << runVars, tallyVars, handle, elapsed, settled, firstReq,
                                  life >>
             [] OTHER ->
                  /\ elapsed' = elapsed + 1
                  /\ UNCHANGED << pc, runVars, tallyVars, handle, probeOK, settled,
                                  firstReq, life >>
    /\ UNCHANGED << cfgVars, otherVars, envVars, stopVars, cacheDirs >>
    /\ UNCHANGED fxVars

\* start_server after the wait: the settle delay, then the handle is returned
\* to setUpClass (class-level) or to setUp (per-test).
StartServerReturn ==
    /\ pc = "start_settle"
    /\ settled' = TRUE
    /\ handle' = spawned
    /\ pc' = IF ctx = "class" THEN "next_test" ELSE "body"
    /\ ctx' = "none"
    /\ UNCHANGED << cfgVars, otherVars, testIdx, shouldStop, failed, exc, exitCode, envVars,
                    elapsed, probeOK, firstReq, stopVars, cacheDirs >>
    /\ UNCHANGED life
    /\ UNCHANGED tallyVars
    /\ UNCHANGED fxVars

\* The suite's loop: the next test method, unless the result says stop.
NextTest ==
    /\ pc = "next_test"
    /\ pc' = IF testIdx < numTests /\ ~shouldStop THEN "setUp" ELSE "tearDownClass"
    /\ UNCHANGED << cfgVars, otherVars, runVars, envVars, launchVars, stopVars, cacheDirs >>
    /\ UNCHANGED life
    /\ UNCHANGED tallyVars
    /\ UNCHANGED fxVars

\* ServerTestBase.setUp: in per-test mode stop, then start a server.
SetUp ==
    /\ pc = "setUp"
    /\ IF StartsInSetUp(server_per_test)
       THEN SomeStopLemonade /\ pc' = "start_spawn" /\ ctx' = "test"
       ELSE pc' = "body" /\ UNCHANGED << ctx, envVars, stopVars >>
    /\ life' = [life EXCEPT !.setUps = @ + 1,
                            !.setUpStops = @ + Bit(StartsInSetUp(server_per_test)),
                            !.setUpStarts = @ + Bit(StartsInSetUp(server_per_test))]
    /\ UNCHANGED << cfgVars, otherVars, testIdx, shouldStop, failed, exc, exitCode,
                    launchVars, cacheDirs >>
    /\ UNCHANGED tallyVars
    /\ UNCHANGED fxVars

\* The first request since the launch, and whether the settle delay preceded it.
FirstReqAfter == IF firstReq # "none" THEN firstReq
                 ELSE IF settled THEN "settled" ELSE "unsettled"

\* The test method is called, after setUp: the wrapper of its decorator
\* looks the feature up and skips the test when it is unsupported; otherwise
\* the body sends requests to the server and passes or fails. failfast stops
\* the run on a failure or an error.
TestBody(feat, outcome) ==
    /\ pc = "body"
    /\ LET lookup == IF feat = None THEN "none" ELSE Supports(wrapped_server, feat)
       IN  /\ outcome \in GateOutcomes(lookup)
           /\ lastTest' = [feature |-> feat, ws |-> wrapped_server,
                           lookup |-> lookup, outcome |-> outcome]
    /\ skipped' = skipped + Bit(outcome = "skip")
    /\ firstReq' = IF outcome \in {"pass", "fail"} THEN FirstReqAfter ELSE firstReq
    /\ failed' = (failed \/ outcome \in {"fail", "error"})
    /\ shouldStop' = (shouldStop \/ StopsRun(outcome))
    /\ testIdx' = testIdx + 1
    /\ stopSinceBody' = FALSE
    /\ pc' = "tearDown"
    /\ UNCHANGED << cfgVars, otherVars, ctx, exc, exitCode, envVars, handle, elapsed, probeOK,
                    settled, lastStop, stopsInRow, cacheDirs >>
    /\ UNCHANGED life
    /\ UNCHANGED fxVars

\* ServerTestBase.tearDown: in per-test mode stop the server.
TearDown ==
    /\ pc = "tearDown"
    /\ IF StopsInTearDown(server_per_test)
       THEN SomeStopLemonade /\ handle' = 0
       ELSE UNCHANGED << envVars, stopVars, handle >>
    /\ life' = [life EXCEPT !.tearDowns = @ + 1,
                            !.tearDownStops = @ + Bit(StopsInTearDown(server_per_test))]
    /\ pc' = "next_test"
    /\ UNCHANGED << cfgVars, otherVars, runVars, elapsed, probeOK, settled, firstReq, cacheDirs >>
    /\ UNCHANGED tallyVars
    /\ UNCHANGED fxVars

\* ServerTestBase.tearDownClass: always stop.
TearDownClass ==
    /\ pc = "tearDownClass"
    /\ SomeStopLemonade
    /\ handle' = 0
    /\ life' = [life EXCEPT !.classEnds = @ + 1, !.classEndStops = @ + 1]
    /\ pc' = AfterRun("none")
    /\ UNCHANGED << cfgVars, otherVars, runVars, elapsed, probeOK, settled, firstReq, cacheDirs >>
    /\ UNCHANGED tallyVars
    /\ UNCHANGED fxVars

InRun == {"setUpClass", "start_spawn", "start_wait", "start_settle", "next_test",
          "setUp", "body", "tearDown", "tearDownClass"}

\* KeyboardInterrupt during runner.run: unittest lets it through, so it
\* leaves the try body at once; no tearDown or tearDownClass runs.
Interrupt ==
    /\ suite = "server" /\ pc \in InRun
    /\ exc' = "KeyboardInterrupt"
    /\ ctx' = "none"
    /\ pc' = AfterRun("KeyboardInterrupt")
    /\ stopSinceBody' = IF pc = "body" THEN FALSE ELSE stopSinceBody
    /\ UNCHANGED << cfgVars, otherVars, testIdx, shouldStop, failed, exitCode, envVars,
                    launchVars, lastStop, stopsInRow, cacheDirs >>
    /\ UNCHANGED life
    /\ UNCHANGED tallyVars
    /\ UNCHANGED fxVars

\* SysExitCode with the result's wasSuccessful() left out of the test.
SysExitCodeAnyResult(hasResult, successful) == IF hasResult THEN 0 ELSE 1

\* sys.exit(0 if (result and result.wasSuccessful()) else 1)
SysExitCode(hasResult, successful) == IF hasResult /\ successful THEN 0 ELSE 1

\* The status of an interpreter ended by an exception nothing caught: 1, or
\* for a KeyboardInterrupt the status of a death by SIGINT, by version and
\* platform.
UncaughtExit == {1, 130}

\* The finally clause of run_server_tests, then sys.exit (or the pending
\* exception ending the process).
FinalCleanup ==
    /\ suite = "server" /\ pc = "finally"
    /\ SomeStopLemonade
    /\ CanExit
    /\ pc' = "exited"
    /\ exitCode' \in (IF exc = "none" THEN {SysExitCode(TRUE, ~failed)}
                       ELSE UncaughtExit)
    /\ UNCHANGED << cfgVars, otherVars, ctx, testIdx, shouldStop, failed, exc, launchVars, cacheDirs >>
    /\ UNCHANGED life
    /\ UNCHANGED tallyVars
    /\ UNCHANGED fxVars

\* ------------------------------------------ server_system_info.py
\* Exceptions the except clause of stop_server absorbs: every Exception.
StopServerCaught == {"TimeoutExpired", "OSError"}

\* stop_server(server_binary): "<binary> stop" only.
StopServerResult(cli) ==
    [attempts |-> << "cli" >>,
     raised |-> cli \in Excs /\ cli \notin StopServerCaught,
     absorbed |-> cli \in (Excs \cap StopServerCaught),
     won |-> IF cli = "rc0" THEN "cli" ELSE "none",
     cliStopped |-> cli = "rc0"]

\* Values of sys.platform and of platform.machine().lower().
Platforms == {"linux", "win32", "darwin", "freebsd13"}
Machines == {"x86_64", "arm64", "riscv64"}

\* Hardware fixtures of MOCK_HARDWARE_CONFIGS, one per required platform.
Fixtures == {"windows_x86_with_rocm_dgpu", "macos_arm64", "linux_x86_no_gpu"}
RequiresOS(fx) ==
    CASE fx = "windows_x86_with_rocm_dgpu" -> "windows"
      [] fx = "macos_arm64" -> "macos"
      [] OTHER -> "linux"
RequiresArch(fx) == IF fx = "macos_arm64" THEN "arm64" ELSE "x86_64"

\* current_os and current_arch as check_platform_requirements computes them.
CurrentOS(plat) ==
    IF plat = "win32" THEN "windows" ELSE IF plat = "darwin" THEN "macos" ELSE "linux"
CurrentArch(mach) ==
    IF mach \in {"x86_64", "amd64"} THEN "x86_64"
    ELSE IF mach \in {"arm64", "aarch64"} THEN "arm64"
    ELSE "unknown"

\* CheckPlatform that only returns False on a mismatch, where the caller
\* drops the returned value: the test goes on.
CheckPlatformReturnsOnly(fx, plat, mach) == "run"

\* check_platform_requirements: skipTest, which raises, when the fixture's
\* OS or architecture is not the harness's.
CheckPlatform(fx, plat, mach) ==
    IF RequiresOS(fx) # CurrentOS(plat) THEN "skip"
    ELSE IF RequiresArch(fx) # CurrentArch(mach) THEN "skip"
    ELSE "run"

\* Versions a server binary can have; the second is not the fallback's.
Versions == {"9.0.0", "10.2.1"}
\* What get_server_version returns when "<binary> --version" raises.
FallbackVersion == << "9.0.0" >>
StartsWithDigit(tok) == tok \in Versions

\* A run of whitespace in an output; the other items of an output are its
\* tokens, one blank apart.
Blank == " "
\* tok.lower(), for the tokens looked at here.
Lower(tok) == IF tok = "Version" THEN "version" ELSE tok
\* output.strip(): the output without its leading and trailing whitespace.
Strip(out) ==
    LET inked == {i \in 1..Len(out) : out[i] # Blank}
    IN  IF inked = {} THEN << >>
        ELSE SubSeq(out, CHOOSE i \in inked : \A j \in inked : i <= j,
                         CHOOSE i \in inked : \A j \in inked : j <= i)
\* output.split(): the tokens between runs of whitespace.
Split(out) == SelectSeq(out, LAMBDA x : x # Blank)

\* HasVersionWord without the lower().
HasVersionWordExact(out) == InSeq("version", out)

\* "version" in output.lower()
HasVersionWord(out) == \E i \in 1..Len(out) : Lower(out[i]) = "version"

\* Exceptions the except clause of get_server_version absorbs: every
\* Exception.
VersionCaught == {"OSError", "TimeoutExpired"}

\* What "<binary> --version" can do for a binary of version v: time out or
\* fail to run, or print, as tokens, the documented line, the bare version,
\* or nothing on stdout.
VersionRuns(v) ==
    {[exc |-> e, out |-> << >>] : e \in Excs} \cup
    {[exc |-> "none", out |-> o] :
        o \in {<< "lemonade-server", "version", v >>, << v >>, << >>}}

\* get_server_version: the first token of the output that starts with a
\* digit when the output holds the word "version", else the whole output;
\* the fallback when the command raises.
GetServerVersion(run) ==
    IF run.exc \in VersionCaught THEN FallbackVersion
    ELSE LET output == Strip(run.out)
             parts == Split(output)
             digits == {i \in 1..Len(parts) : StartsWithDigit(parts[i])}
         IN  IF HasVersionWord(output) /\ digits # {}
             THEN << parts[CHOOSE i \in digits : \A j \in digits : i <= j] >>
             ELSE output

\* An exception leaves get_server_version: one its except clause lets through.
GetServerVersionRaises(run) == run.exc \notin {"none"} \cup VersionCaught

\* Environment variables the harness treats, and their values in os.environ.
CiVar == "LEMONADE_CI_MODE"
CacheVar == "LEMONADE_CACHE_DIR"
EnvNames == {CiVar, CacheVar}
EnvValue(n) == IF n = CacheVar THEN "user_cache" ELSE "1"

\* env = os.environ.copy(); env["LEMONADE_CACHE_DIR"] = temp_cache_dir
FixtureEnv(names) ==
    [n \in names \cup {CacheVar} |->
        IF n = CacheVar THEN "temp_cache_dir" ELSE EnvValue(n)]

\* OsEnviron with env bound to os.environ itself instead of a copy of it:
\* the assignment of the cache directory lands in os.environ.
OsEnvironNoCopy(names) == names \cup {CacheVar}

\* os.environ once the environment of the child is prepared: env is a copy,
\* so the assignment to env leaves os.environ as it was.
OsEnviron(names) == names

\* process.wait(timeout=5): the grace period after terminate(), in seconds.
GraceSeconds == 5
\* How long a child takes to exit once terminated.
ExitDelays == {0, GraceSeconds, GraceSeconds + 1}

\* StopSteps without the kill after the grace period has run out.
StopStepsNoKill(delay) == << "stop_server", "terminate", "wait" >>

\* The inner finally clause: stop_server, process.terminate(), process.wait
\* for the grace period, and process.kill() when that times out.
StopSteps(delay) ==
    << "stop_server", "terminate", "wait" >> \o
        (IF delay > GraceSeconds THEN << "kill" >> ELSE << >>)

\* The child has exited once those steps are done.
GoneAfter(steps, delay) == delay <= GraceSeconds \/ InSeq("kill", steps)

\* The recipes and backends of the capability report looked at here, and the
\* (recipe, backend) pairs the report can hold.
Recipes == {"llamacpp", "flm"}
Backends(recipe) == IF recipe = "llamacpp" THEN {"vulkan", "metal"} ELSE {"default"}
Pairs == {<< "llamacpp", "vulkan" >>, << "llamacpp", "metal" >>, << "flm", "default" >>}

\* expected_supported and expected_unsupported of a fixture, for those
\* recipes and backends: per listed recipe, its listed backends.
ExpectedSupported(fx) ==
    IF fx = "macos_arm64" THEN [r \in {"llamacpp"} |-> {"metal"}]
    ELSE [r \in {"llamacpp"} |-> {"vulkan"}]
ExpectedUnsupported(fx) ==
    [r \in Recipes |->
        IF r = "flm" THEN {"default"}
        ELSE IF fx = "macos_arm64" THEN {"vulkan"} ELSE {"metal"}]

\* What an entry of the report says of a backend: no entry, "supported"
\* true or false, or an entry without that key.
Flags == {"absent", "true", "false", "nokey"}

\* Responses to GET /system-info: the status code, whether the body has a
\* "recipes" section, the recipes in it and, per pair of a recipe in it, its
\* flag.
Responses ==
    {[status |-> 500, hasRecipes |-> FALSE, recipes |-> {},
      flag |-> [p \in Pairs |-> "absent"]],
     [status |-> 200, hasRecipes |-> FALSE, recipes |-> {},
      flag |-> [p \in Pairs |-> "absent"]]}
    \cup
    UNION {{[status |-> 200, hasRecipes |-> TRUE, recipes |-> rs, flag |-> f] :
               f \in {g \in [Pairs -> Flags] :
                          \A p \in Pairs : p[1] \notin rs => g[p] = "absent"}} :
           rs \in SUBSET Recipes}

\* Supported with True as the default of the get.
SupportedByDefault(flag) == flag \in {"true", "nokey"}

\* backend_info.get("supported", False)
Supported(flag) == flag = "true"

\* FixtureVerdict without the loop over expected_unsupported.
FixtureVerdictSupportedOnly(fx, resp) ==
    IF resp.status # 200 \/ ~resp.hasRecipes THEN "fail"
    ELSE IF \A recipe \in DOMAIN ExpectedSupported(fx) :
               /\ recipe \in resp.recipes
               /\ \A backend \in ExpectedSupported(fx)[recipe] :
                      /\ resp.flag[<< recipe, backend >>] # "absent"
                      /\ Supported(resp.flag[<< recipe, backend >>])
    THEN "pass"
    ELSE "fail"

\* The assertions of run_test_with_mock_hardware on the response: status
\* 200, a "recipes" section, every recipe of expected_supported in it with
\* each listed backend present and supported, every recipe of
\* expected_unsupported in it with each listed backend present and not
\* supported. The first assertion that fails fails the test.
FixtureVerdict(fx, resp) ==
    IF resp.status # 200 \/ ~resp.hasRecipes THEN "fail"
    ELSE IF /\ \A recipe \in DOMAIN ExpectedSupported(fx) :
               /\ recipe \in resp.recipes
               /\ \A backend \in ExpectedSupported(fx)[recipe] :
                      /\ resp.flag[<< recipe, backend >>] # "absent"
                      /\ Supported(resp.flag[<< recipe, backend >>])
            /\ \A recipe \in DOMAIN ExpectedUnsupported(fx) :
               /\ recipe \in resp.recipes
               /\ \A backend \in ExpectedUnsupported(fx)[recipe] :
                      /\ resp.flag[<< recipe, backend >>] # "absent"
                      /\ ~Supported(resp.flag[<< recipe, backend >>])
    THEN "pass"
    ELSE "fail"

\* What the request and the assertions can come to for a fixture: the
\* verdict on some response, or an error when the request raises.
RequestOutcomes(fx) == {FixtureVerdict(fx, resp) : resp \in Responses} \cup {"error"}

\* RmtreeRuns with the rmtree at the end of the try body instead of in a
\* finally clause.
RmtreeOnPassOnly(outcome) == outcome = "pass"

\* The outer finally clause runs shutil.rmtree whatever the test came to.
RmtreeRuns(outcome) == TRUE

\* SystemInfoMockTests.setUpClass: read the version, stop any existing server.
FixtureSetUpClass(ver, cli) ==
    /\ suite = "fixture" /\ pc = "import"
    /\ server_version' = GetServerVersion(ver)
    /\ LET r == StopServerResult(cli)
           gone == IF r.cliStopped THEN Listener ELSE {}
       IN  /\ lastStop' = [fn |-> "stop_server", binary |-> Bin,
                           attempts |-> r.attempts, raised |-> r.raised,
                           absorbed |-> r.absorbed, won |-> r.won]
           /\ svc' = (svc /\ ~r.cliStopped)
           /\ proc' = ProcAfterExit(gone)
           /\ pipe' = PipeAfterExit(gone)
           /\ relay' = RelayAfterExit(gone)
           /\ reader' = ReaderAfterExit(gone)
    /\ stopsInRow' = Min(2, stopsInRow + 1)
    /\ stopSinceBody' = TRUE
    /\ pc' = "fx_next"
    /\ UNCHANGED << cfgVars, otherVars, runVars, spawned, launchVars, cacheDirs >>
    /\ UNCHANGED << life, tallyVars, fxTest >>

\* run_test_with_mock_hardware up to Popen: the platform check (a mismatch
\* skips the test), mkdtemp, the hardware document with the version tag, the
\* environment, and the launch with both streams piped. setup is "ok", or
\* the step that raises.
FixtureBegin(fx, setup) ==
    /\ pc = "fx_next" /\ testIdx < numTests /\ spawned < MaxTests
    /\ LET begun == [NoFx EXCEPT !.name = fx]
           made == [begun EXCEPT !.dir = TRUE, !.exists = TRUE]
           written == [made EXCEPT !.doc = TRUE, !.tag = server_version,
                                   !.env = FixtureEnv(environ)]
       IN  IF CheckPlatform(fx, platform, machine) = "skip"
           THEN /\ testIdx' = testIdx + 1
                /\ lastTest' = [NoTest EXCEPT !.outcome = "skip"]
                /\ skipped' = skipped + 1
                /\ fxTest' = [begun EXCEPT !.mismatch = TRUE, !.done = TRUE]
                /\ UNCHANGED << pc, failed, envVars, launchVars, stopsInRow, cacheDirs >>
           ELSE IF setup = "MkdtempError"
           THEN /\ testIdx' = testIdx + 1
                /\ lastTest' = [NoTest EXCEPT !.outcome = "error"]
                /\ failed' = TRUE
                /\ fxTest' = [begun EXCEPT !.done = TRUE]
                /\ UNCHANGED << pc, skipped, envVars, launchVars, stopsInRow, cacheDirs >>
           ELSE /\ cacheDirs' = cacheDirs + 1
                /\ testIdx' = testIdx
                /\ skipped' = skipped
                /\ IF setup = "ok"
                   THEN /\ spawned' = spawned + 1
                        /\ proc' = [proc EXCEPT ![spawned + 1] = "starting"]
                        /\ handle' = spawned + 1
                        /\ elapsed' = 0
                        /\ probeOK' = FALSE
                        /\ settled' = FALSE
                        /\ firstReq' = "none"
                        /\ stopsInRow' = 0
                        /\ pc' = "fx_wait"
                        /\ fxTest' = [written EXCEPT !.launched = TRUE,
                                                     !.pid = spawned + 1]
                        /\ UNCHANGED << failed, lastTest, relay, reader, pipe, svc >>
                   ELSE /\ failed' = TRUE
                        /\ lastTest' = [NoTest EXCEPT !.outcome = "error"]
                        /\ fxTest' = IF setup = "WriteError" THEN made ELSE written
                        /\ pc' = "fx_rmtree"
                        /\ UNCHANGED << envVars, launchVars, stopsInRow >>
    /\ environ' = IF CheckPlatform(fx, platform, machine) = "run"
                      /\ setup \in {"ok", "PopenError"}
                   THEN OsEnviron(environ) ELSE environ
    /\ UNCHANGED << cfgVars, numTests, machine, binVersion, waitVars, callVars, apiVars,
                    ctx, shouldStop, exc, exitCode, lastStop, stopSinceBody >>
    /\ UNCHANGED << life, server_version >>

\* run_test_with_mock_hardware inside wait_for_server(): one pass of the loop.
FixtureWait ==
    /\ pc = "fx_wait"
    /\ LET r == WaitStep(elapsed, MaxWait, PortOpen)
       IN  CASE r = "TimeoutError" ->
                  /\ failed' = TRUE
                  /\ lastTest' = [NoTest EXCEPT !.outcome = "error"]
                  /\ pc' = "fx_stop"
                  /\ UNCHANGED << elapsed, probeOK >>
             [] r = "True" ->
                  /\ probeOK' = TRUE
                  /\ pc' = "fx_request"
                  /\ UNCHANGED << failed, elapsed, lastTest >>
             [] OTHER ->
                  /\ elapsed' = elapsed + 1
                  /\ UNCHANGED << pc, failed, probeOK, lastTest >>
    /\ skipped' = skipped
    /\ UNCHANGED << cfgVars, otherVars, ctx, testIdx, shouldStop, exc, exitCode, envVars,
                    handle, settled, firstReq, stopVars, cacheDirs >>
    /\ UNCHANGED << life, fxVars >>

\* The GET of /system-info and the assertions on its report: they pass, one
\* fails, or the request raises before any assertion.
FixtureRequest(outcome) ==
    /\ pc = "fx_request"
    /\ outcome \in RequestOutcomes(fxTest.name)
    /\ firstReq' = FirstReqAfter
    /\ failed' = (failed \/ outcome \in {"fail", "error"})
    /\ lastTest' = [NoTest EXCEPT !.outcome = outcome]
    /\ skipped' = skipped
    /\ fxTest' = [fxTest EXCEPT !.asserted = (outcome \in {"pass", "fail"})]
    /\ stopSinceBody' = FALSE
    /\ pc' = "fx_stop"
    /\ UNCHANGED << cfgVars, otherVars, ctx, testIdx, shouldStop, exc, exitCode, envVars,
                    handle, elapsed, probeOK, settled, lastStop, stopsInRow,
                    cacheDirs >>
    /\ UNCHANGED << life, server_version >>

\* The inner finally clause: stop_server, then process.terminate(), a wait
\* of 5 seconds and process.kill() if it has not exited by then. The child
\* takes delay seconds to exit once terminated.
FixtureStop(cli, delay) ==
    /\ pc = "fx_stop"
    /\ LET r == StopServerResult(cli)
           steps == StopSteps(delay)
           gone == (IF r.cliStopped THEN Listener ELSE {}) \cup
                   (IF GoneAfter(steps, delay) THEN {handle} ELSE {})
       IN  /\ lastStop' = [fn |-> "fixture", binary |-> Bin,
                           attempts |-> r.attempts \o << "signal" >>,
                           raised |-> r.raised, absorbed |-> r.absorbed,
                           won |-> "signal"]
           /\ fxTest' = [fxTest EXCEPT !.steps = steps, !.delay = delay]
           /\ svc' = (svc /\ ~r.cliStopped)
           /\ proc' = ProcAfterExit(gone)
           /\ pipe' = PipeAfterExit(gone)
           /\ relay' = RelayAfterExit(gone)
           /\ reader' = ReaderAfterExit(gone)
    /\ stopsInRow' = Min(2, stopsInRow + 1)
    /\ stopSinceBody' = TRUE
    /\ pc' = "fx_rmtree"
    /\ UNCHANGED << cfgVars, otherVars, runVars, spawned, launchVars, cacheDirs >>
    /\ UNCHANGED << life, tallyVars, server_version >>

\* The outer finally clause: shutil.rmtree, its failure printed and dropped;
\* the test method returns.
FixtureRmtree(rm) ==
    /\ pc = "fx_rmtree"
    /\ IF RmtreeRuns(lastTest.outcome)
       THEN /\ cacheDirs' = IF rm = "ok" THEN cacheDirs - 1 ELSE cacheDirs
            /\ fxTest' = [fxTest EXCEPT !.rmCalls = @ + 1, !.rm = rm,
                                        !.exists = (rm # "ok"), !.done = TRUE]
       ELSE /\ cacheDirs' = cacheDirs
            /\ fxTest' = [fxTest EXCEPT !.done = TRUE]
    /\ testIdx' = testIdx + 1
    /\ handle' = 0
    /\ pc' = "fx_next"
    /\ UNCHANGED << cfgVars, otherVars, ctx, shouldStop, failed, exc, exitCode, envVars,
                    elapsed, probeOK, settled, firstReq, stopVars >>
    /\ UNCHANGED << life, tallyVars, server_version >>

\* Every test method has run: sys.exit with the result.
FixtureExit ==
    /\ pc = "fx_next" /\ testIdx = numTests
    /\ CanExit
    /\ pc' = "exited"
    /\ exitCode' = IF failed THEN 1 ELSE 0
    /\ UNCHANGED << cfgVars, otherVars, ctx, testIdx, shouldStop, failed, exc, envVars,
                    launchVars, stopVars, cacheDirs >>
    /\ UNCHANGED << life, tallyVars, fxVars >>

\* --------------------------------------- the servers and the relay threads
harnessVars == << cfgVars, otherVars, pc, runVars, launchVars, stopVars, cacheDirs,
                 tallyVars, fxVars, life >>

\* A started child binds the port and listens, if the port is free.
ChildBind(p) ==
    /\ pc # "exited" /\ proc[p] = "starting" /\ ~PortOpen
    /\ proc' = [proc EXCEPT ![p] = "listening"]
    /\ UNCHANGED << harnessVars, relay, reader, pipe, svc, spawned >>

\* A child exits: it could not bind the port, or it fails.
ChildExit(p) ==
    /\ pc # "exited" /\ Alive(p)
    /\ proc' = ProcAfterExit({p})
    /\ pipe' = PipeAfterExit({p})
    /\ relay' = RelayAfterExit({p})
    /\ reader' = ReaderAfterExit({p})
    /\ UNCHANGED << harnessVars, svc, spawned >>

\* A child writes a line to one of its streams; the write blocks while the
\* pipe is full.
ChildWrite(p, s) ==
    /\ pc # "exited" /\ Alive(p) /\ pipe[p][s] < PipeCap
    /\ pipe' = [pipe EXCEPT ![p][s] = @ + 1]
    /\ UNCHANGED << harnessVars, proc, relay, reader, svc, spawned >>

\* print_stdout / print_stderr: a reader thread takes a line off its pipe.
RelayRead(p, s) ==
    /\ pc # "exited" /\ reader[p][s] = "running" /\ pipe[p][s] > 0
    /\ pipe' = [pipe EXCEPT ![p][s] = @ - 1]
    /\ UNCHANGED << harnessVars, proc, relay, reader, svc, spawned >>

\* An error inside print_stdout / print_stderr: the except clause ends the
\* thread without a word; an exception it did not catch would end the thread
\* with a traceback. Neither is seen by the harness thread.
RelayError(p, s, e) ==
    /\ pc # "exited" /\ reader[p][s] = "running"
    /\ reader' = [reader EXCEPT ![p][s] =
                      IF e \in RelayCaught THEN "swallowed" ELSE "crashed"]
    /\ UNCHANGED << harnessVars, proc, relay, pipe, svc, spawned >>

\* ------------------------------------------------------------------ Next
Next ==
    \/ \E perTest \in BOOLEAN, ws \in WrappedChoices \cup {None},
          override \in {None, Unlisted} : ParseArgs(perTest, ws, override)
    \/ CallStopLemonade
    \/ RunnerRun
    \/ SetUpClass
    \/ \E popen \in {"ok", "OSError"} : StartServerSpawn(popen)
    \/ StartServerWait
    \/ StartServerReturn
    \/ NextTest
    \/ SetUp
    \/ \E feat \in Features \cup {None}, outcome \in {"pass", "fail", "skip", "error"} :
          TestBody(feat, outcome)
    \/ TearDown
    \/ TearDownClass
    \/ Interrupt
    \/ FinalCleanup
    \/ \E ver \in VersionRuns(binVersion), cli \in RunOutcomes :
          FixtureSetUpClass(ver, cli)
    \/ \E fx \in Fixtures, setup \in {"ok", "MkdtempError", "WriteError", "PopenError"} :
          FixtureBegin(fx, setup)
    \/ FixtureWait
    \/ \E outcome \in {"pass", "fail", "error"} : FixtureRequest(outcome)
    \/ \E cli \in RunOutcomes, delay \in ExitDelays : FixtureStop(cli, delay)
    \/ \E rm \in {"ok", "error"} : FixtureRmtree(rm)
    \/ FixtureExit
    \/ \E p \in Pids : ChildBind(p)
    \/ \E p \in Pids : ChildExit(p)

Spec == Init /\ [][Next]_vars

\* --------------------------------- the fixture tests on every kind of host
\* server_system_info.py run on any platform and machine, against a binary
\* of any version, with any of the harness's environment variables set.
InitFixture ==
    /\ InitState
    /\ suite = "fixture"
    /\ platform \in Platforms
    /\ svc \in (IF platform = "linux" THEN BOOLEAN ELSE {FALSE})
    /\ machine \in Machines
    /\ binVersion \in Versions
    /\ environ \in SUBSET EnvNames
    /\ numTests \in 1..MaxTests

NextFixture ==
    \/ \E ver \in VersionRuns(binVersion), cli \in RunOutcomes :
          FixtureSetUpClass(ver, cli)
    \/ \E fx \in Fixtures, setup \in {"ok", "MkdtempError", "WriteError", "PopenError"} :
          FixtureBegin(fx, setup)
    \/ FixtureWait
    \/ \E outcome \in {"pass", "fail", "error"} : FixtureRequest(outcome)
    \/ \E cli \in RunOutcomes, delay \in ExitDelays : FixtureStop(cli, delay)
    \/ \E rm \in {"ok", "error"} : FixtureRmtree(rm)
    \/ FixtureExit
    \/ \E p \in Pids : ChildBind(p)
    \/ \E p \in Pids : ChildExit(p)

SpecFixture == InitFixture /\ [][NextFixture]_vars

\* ------------------------------------------------ output pipes and relays
\* The run of a class with one test method, together with what the children
\* write to their pipes and what the reader threads take off them.
InitRelay == InitRun /\ numTests = 1

NextRelay ==
    \/ Next
    \/ \E p \in Pids, s \in Streams : ChildWrite(p, s)
    \/ \E p \in Pids, s \in Streams : RelayRead(p, s)
    \/ \E p \in Pids, s \in Streams, e \in RelayErrs : RelayError(p, s, e)

SpecRelay == InitRelay /\ [][NextRelay]_vars

\* ------------------------------------------- wait_for_server on its own
\* A call wait_for_server(port, timeout) by itself: the harness is idle, the
\* port opens and closes as a server comes and goes, and a connection attempt
\* takes up to MaxConnDelay seconds.
mainVars == << suite, platform, machine, binVersion, environ, server_binary, server_per_test, wrapped_server, numTests, pc, ctx, testIdx,
               shouldStop, failed, exc, exitCode, proc, relay, reader, pipe, svc, spawned,
               handle, elapsed, probeOK, settled, firstReq, lastStop, stopsInRow,
               stopSinceBody, cacheDirs, lastTest, skipped, server_version, fxTest,
               life, callVars, apiVars >>

\* The harness at rest on a Windows host: imported, nothing configured,
\* nothing launched.
HarnessIdle ==
    /\ suite = "server" /\ platform = "win32" /\ svc = FALSE
    /\ machine = "x86_64" /\ binVersion = "10.2.1" /\ environ = {}
    /\ server_version = << >> /\ fxTest = NoFx
    /\ server_binary = None /\ server_per_test = FALSE /\ numTests = 1
    /\ pc = "import" /\ ctx = "none" /\ testIdx = 0
    /\ shouldStop = FALSE /\ failed = FALSE /\ exc = "none" /\ exitCode = -1
    /\ proc = [p \in Pids |-> "none"]
    /\ relay = [p \in Pids |-> FALSE]
    /\ reader = [p \in Pids |-> [s \in Streams |-> "none"]]
    /\ pipe = [p \in Pids |-> EmptyPipes]
    /\ spawned = 0 /\ handle = 0 /\ elapsed = 0
    /\ probeOK = FALSE /\ settled = FALSE /\ firstReq = "none"
    /\ lastStop = NoStop /\ stopsInRow = 0 /\ stopSinceBody = FALSE
    /\ cacheDirs = 0
    /\ life = NoHooks
    /\ wrapped_server = None /\ lastTest = NoTest /\ skipped = 0

InitWait ==
    /\ HarnessIdle /\ NoCall /\ NoApi
    /\ w_pc = "loop"
    /\ w_timeout \in 0..MaxTimeoutArg
    /\ w_open \in BOOLEAN
    /\ w_now = 0 /\ w_conn = "none" /\ w_refused = 0 /\ w_slept = 0
    /\ w_result = [kind |-> "none", bound |-> 0]

\* One pass of the loop of wait_for_server; its connection attempt takes d
\* seconds.
WaitForServerPass(d) ==
    /\ w_pc = "loop"
    /\ LET r == WaitStep(w_now, w_timeout, w_open)
       IN  CASE r = "TimeoutError" ->
                  /\ w_result' = [kind |-> "TimeoutError", bound |-> w_timeout]
                  /\ w_pc' = "done"
                  /\ UNCHANGED << w_now, w_conn, w_refused, w_slept >>
             [] r = "True" ->
                  /\ w_now' = w_now + d
                  /\ w_conn' = "accepted"
                  /\ w_result' = [kind |-> "True", bound |-> 0]
                  /\ w_pc' = "done"
                  /\ UNCHANGED << w_refused, w_slept >>
             [] OTHER ->
                  /\ w_now' = w_now + d + Backoff
                  /\ w_conn' = "refused"
                  /\ w_refused' = w_refused + 1
                  /\ w_slept' = w_slept + Backoff
                  /\ UNCHANGED << w_pc, w_result >>
    /\ UNCHANGED << w_timeout, w_open, mainVars >>

\* The server comes up, or goes away, while the harness waits.
PortFlips ==
    /\ w_pc = "loop"
    /\ w_open' = ~w_open
    /\ UNCHANGED << w_pc, w_timeout, w_now, w_conn, w_refused, w_slept, w_result,
                    mainVars >>

NextWait ==
    \/ \E d \in 0..MaxConnDelay : WaitForServerPass(d)
    \/ PortFlips

SpecWait == InitWait /\ [][NextWait]_vars

\* The loop runs on the calling thread and every connection attempt returns:
\* a pass of the loop that can be taken is taken.
WaitLive == WF_vars(\E d \in 0..MaxConnDelay : WaitForServerPass(d))
SpecWaitLive == InitWait /\ [][NextWait]_vars /\ WaitLive

\* --------------------------------------- functions called by themselves
\* One function of the harness called with given arguments, on a given host
\* and with given outcomes of the commands it runs.
\* Every variable but those of the call and of the server's API.
restVars == << cfgVars, numTests, machine, binVersion, environ, waitVars, pc, runVars,
               launchVars, stopVars, cacheDirs, tallyVars, fxVars, life, envVars >>

\* The default port, and another one.
DefaultPort == "PORT"
OtherPort == "8123"

\* A value that counts as true in a condition: neither None nor empty.
Truthy(x) == x \notin {None, ""}

\* NoTrayApplies with the test of os.name left out.
NoTrayOnCiOnly(osname, ci) == Truthy(ci)

\* if os.name == "nt" or os.getenv("LEMONADE_CI_MODE"): ci is what getenv
\* returns, None when the variable is unset.
NoTrayApplies(osname, ci) == osname = "nt" \/ Truthy(ci)

Opt(cond, args) == IF cond THEN args ELSE << >>

\* The command start_server builds from its arguments a (argsGiven tells
\* additional_args from None) and from _config.
StartServerCmd(a, cfg, osname, ci) ==
    LET binary == IF a.server_binary = None THEN cfg.server_binary
                  ELSE a.server_binary
        wrapped == IF a.wrapped_server = None THEN cfg.wrapped_server
                   ELSE a.wrapped_server
        backend == IF a.backend = None THEN cfg.backend ELSE a.backend
        additional == IF ~a.argsGiven THEN cfg.additional_server_args
                      ELSE a.additional_args
    IN  << binary, "serve" >>
            \o Opt(NoTrayApplies(osname, ci), << "--no-tray" >>)
            \o << "--log-level", "debug" >>
            \o Opt(a.port # DefaultPort, << "--port", a.port >>)
            \o Opt(wrapped = "llamacpp" /\ Truthy(backend), << "--llamacpp", backend >>)
            \o Opt(wrapped = "sd-cpp" /\ Truthy(backend), << "--sdcpp", backend >>)
            \o additional

\* HookArgs with the class's arguments put first.
HookArgsClassFirst(cfg, clsArgs) == clsArgs \o cfg.additional_server_args

\* all_args of setUpClass and setUp: the run's additional arguments, then
\* the class's.
HookArgs(cfg, clsArgs) == cfg.additional_server_args \o clsArgs

\* What setUpClass and setUp give start_server: additional_args only.
HookCall(cfg, clsArgs) ==
    [server_binary |-> None, wrapped_server |-> None, backend |-> None,
     argsGiven |-> TRUE, additional_args |-> HookArgs(cfg, clsArgs),
     port |-> DefaultPort]

\* cmd of run_test_with_mock_hardware.
FixtureCmd(binary) == << binary, "serve", "--no-tray", "--log-level", "debug" >>

\* _config after parse_args and the overrides of run_server_tests.
Configs ==
    [server_binary : {Bin}, wrapped_server : {None, "llamacpp", "sd-cpp"},
     backend : {None, "rocm"}, additional_server_args : {<< >>, << "--offline" >>}]

\* Arguments of a direct call of start_server.
DirectArgs ==
    [server_binary : {None, "other-server"},
     wrapped_server : {None, "llamacpp", "sd-cpp"},
     backend : {None, "", "vulkan"},
     argsGiven : {TRUE}, additional_args : {<< >>, << "--ctx-size", "4096" >>},
     port : {DefaultPort, OtherPort}]
    \cup
    [server_binary : {None, "other-server"},
     wrapped_server : {None, "llamacpp", "sd-cpp"},
     backend : {None, "", "vulkan"},
     argsGiven : {FALSE}, additional_args : {<< >>},
     port : {DefaultPort, OtherPort}]

\* additional_server_args of the test class: none (ServerTestBase), or those
\* of LLMTests.
ClassArgs == {<< >>, << "--max-loaded-models", "2" >>}

\* The host of a launch: os.name, os.getenv("LEMONADE_CI_MODE"), and whether
\* it has no display.
Hosts == [osname : {"nt", "posix"}, ci : {None, "", "1"}, headless : BOOLEAN]

\* Launches: start_server called directly or by a hook of ServerTestBase,
\* and the launch of a fixture test.
LaunchCalls ==
    [fn : {"start_server"}, via : {"direct"}, a : DirectArgs, cfg : Configs,
     clsArgs : {<< >>}, host : Hosts]
    \cup
    {[fn |-> "start_server", via |-> v, a |-> HookCall(c, k), cfg |-> c,
      clsArgs |-> k, host |-> h] :
        v \in {"setUpClass", "setUp"}, c \in Configs, k \in ClassArgs, h \in Hosts}
    \cup
    [fn : {"run_test_with_mock_hardware"}, via : {"direct"}, binary : {Bin},
     host : Hosts]

\* The launch builds its command.
CallLaunch ==
    /\ call.fn \in {"start_server", "run_test_with_mock_hardware"} /\ ret.fn = "none"
    /\ ret' = IF call.fn = "start_server"
              THEN [fn |-> call.fn,
                    val |-> StartServerCmd(call.a, call.cfg, call.host.osname,
                                           call.host.ci)]
              ELSE [fn |-> call.fn, val |-> FixtureCmd(call.binary)]
    /\ UNCHANGED << call, restVars, apiVars >>

\* The assertions of a fixture test on a response.
ReportCalls == [fn : {"assert_report"}, fixture : Fixtures, resp : Responses]

CallAssertReport ==
    /\ call.fn = "assert_report" /\ ret.fn = "none"
    /\ ret' = [fn |-> call.fn, val |-> FixtureVerdict(call.fixture, call.resp)]
    /\ UNCHANGED << call, restVars, apiVars >>

\* Calls of _stop_server_via_systemd() and of stop_lemonade().
StopCalls ==
    [fn : {"_stop_server_via_systemd", "stop_lemonade"}, binary : {None, Bin},
     plat : Platforms, isActive : RunOutcomes, sysStop : RunOutcomes,
     cli : RunOutcomes]

\* The call returns (or raises).
CallStop ==
    /\ call.fn \in {"_stop_server_via_systemd", "stop_lemonade"} /\ ret.fn = "none"
    /\ ret' = IF call.fn = "stop_lemonade"
              THEN [fn |-> call.fn,
                    val |-> StopLemonadeResult(call.binary, call.plat, call.isActive,
                                               call.sysStop, call.cli)]
              ELSE [fn |-> call.fn,
                    val |-> StopViaSystemd(call.plat, call.isActive, call.sysStop)]
    /\ UNCHANGED << call, restVars, apiVars >>

\* set_current_config(wrapped_server, backend): the selection the capability
\* gate looks up from then on.
SetCurrentConfig(ws, be) == [wrapped_server |-> ws, backend |-> be]
\* The selection of the gate while nobody has set it.
NoCurrentConfig == [wrapped_server |-> None, backend |-> None]

\* a or b
Or(a, b) == IF Truthy(a) THEN a ELSE b

\* parse_args: the command line's values go to _config, and to the gate
\* when a wrapped server was given.
ParseArgsSelection(argWs, argBe) ==
    [config |-> [wrapped_server |-> argWs, backend |-> argBe],
     gate |-> IF Truthy(argWs) THEN SetCurrentConfig(argWs, argBe)
              ELSE NoCurrentConfig]

\* run_server_tests after parse_args and its overrides: the wrapped_server
\* override goes to _config and to the gate, the backend override to _config.
RunSelection(argWs, argBe, ws, be) ==
    LET p == ParseArgsSelection(argWs, argBe)
    IN  [config |-> [wrapped_server |-> IF Truthy(ws) THEN ws
                                        ELSE p.config.wrapped_server,
                     backend |-> IF Truthy(be) THEN be ELSE p.config.backend],
         gate |-> IF Truthy(ws)
                  THEN SetCurrentConfig(ws, Or(be, p.config.backend))
                  ELSE p.gate]

\* Command lines and overrides of run_server_tests: --wrapped-server is one
\* of the matrix's keys, the overrides are whatever the caller passes.
SelectionCalls ==
    [fn : {"run_server_tests"}, argWs : WrappedChoices \cup {None},
     argBe : {None, "", "vulkan"}, ws : {None, "", "llamacpp", Unlisted},
     be : {None, "", "rocm"}]

\* run_server_tests has applied the command line and its overrides.
CallRunServerTests ==
    /\ call.fn = "run_server_tests" /\ ret.fn = "none"
    /\ ret' = [fn |-> call.fn,
               val |-> RunSelection(call.argWs, call.argBe, call.ws, call.be)]
    /\ UNCHANGED << call, restVars, apiVars >>

\* What "<binary> --version" prints on stdout: tokens and whitespace.
VersionItems ==
    {"lemonade-server", "version", "Version", "v10.2.1", Blank} \cup Versions
VersionOutputs == UNION {[1..n -> VersionItems] : n \in 0..MaxTokens}

\* Calls of get_server_version: the command raises, or prints an output.
VersionCalls ==
    {[fn |-> "get_server_version", run |-> [exc |-> e, out |-> << >>]] : e \in Excs}
    \cup
    {[fn |-> "get_server_version", run |-> [exc |-> "none", out |-> o]] :
        o \in VersionOutputs}

\* get_server_version returns.
CallGetServerVersion ==
    /\ call.fn = "get_server_version" /\ ret.fn = "none"
    /\ ret' = [fn |-> call.fn, val |-> GetServerVersion(call.run),
               raised |-> GetServerVersionRaises(call.run)]
    /\ UNCHANGED << call, restVars, apiVars >>

InitCalls ==
    /\ HarnessIdle /\ NoWait /\ NoApi
    /\ call \in StopCalls \cup LaunchCalls \cup ReportCalls \cup SelectionCalls
                 \cup VersionCalls
    /\ ret = [fn |-> "none"]

NextCalls ==
    \/ CallStop
    \/ CallLaunch
    \/ CallAssertReport
    \/ CallRunServerTests
    \/ CallGetServerVersion

SpecCalls == InitCalls /\ [][NextCalls]_vars

\* --------------------------------------------- the server's API and LLMTests
\* The server behind the API, as the specification describes it: it keeps at
\* most MaxLoadedModels models loaded and evicts the least recently used one;
\* an unload that names no model unloads all; at temperature 0 its answer to
\* a prompt is fixed, and a stream sends it as a created event, the answer
\* in delta chunks, and a completed event holding the whole answer.

\* additional_server_args = ["--max-loaded-models", "2"]
MaxLoadedModels == 2

\* get_test_model("llm"), MULTI_MODEL_SECONDARY, MULTI_MODEL_TERTIARY, and a
\* model other tests of the class load.
Model1 == "model1"
Model2 == "model2"
Model3 == "model3"
Models == {Model1, Model2, Model3, "other_model"}

Loaded(sq) == {sq[i] : i \in 1..Len(sq)}
Without(sq, mdl) == SelectSeq(sq, LAMBDA x : x # mdl)

\* The server loads a model, or serves a request to it: the model becomes
\* the most recently used; when it was not loaded and the server is full,
\* the least recently used model is evicted.
Evicted(sq, mdl) ==
    IF mdl \notin Loaded(sq) /\ Len(sq) >= MaxLoadedModels THEN Head(sq) ELSE None
Use(sq, mdl) ==
    IF mdl \in Loaded(sq) THEN Without(sq, mdl) \o << mdl >>
    ELSE IF Len(sq) >= MaxLoadedModels THEN Tail(sq) \o << mdl >>
    ELSE sq \o << mdl >>

\* The server unloads the named model, or all when none is named.
Unload(sq, mdl) == IF mdl = None THEN << >> ELSE Without(sq, mdl)
UnloadStatus(sq, mdl) ==
    IF mdl = None \/ mdl \in Loaded(sq) THEN "success" ELSE "error"

\* The server serves a request.
Serve(srv, req) ==
    CASE req.op \in {"load", "chat"} ->
            [srv EXCEPT !.loaded = Use(srv.loaded, req.model),
                        !.last = [op |-> req.op, model |-> req.model,
                                  status |-> "success",
                                  evicted |-> Evicted(srv.loaded, req.model)]]
      [] req.op = "unload" ->
            [srv EXCEPT !.loaded = Unload(srv.loaded, req.model),
                        !.last = [op |-> req.op, model |-> req.model,
                                  status |-> UnloadStatus(srv.loaded, req.model),
                                  evicted |-> None]]
      [] OTHER ->
            [srv EXCEPT !.last = [op |-> req.op, model |-> None,
                                  status |-> "success", evicted |-> None]]

\* The requests of test_021_lru_eviction, with the assertion that follows
\* each; touched is the model its chat completion request names.
Test021Steps(touched) ==
    << [op |-> "unload", model |-> None, check |-> "none"],
       [op |-> "load", model |-> Model1, check |-> "none"],
       [op |-> "load", model |-> Model2, check |-> "none"],
       [op |-> "health", model |-> None, check |-> "len2"],
       [op |-> "chat", model |-> touched, check |-> "none"],
       [op |-> "load", model |-> Model3, check |-> "none"],
       [op |-> "health", model |-> None, check |-> "evicted1"] >>

\* Test021 with the chat completion sent to the first model.
Test021TouchingFirst == Test021Steps(Model1)

\* test_021_lru_eviction: the chat completion goes to model2.
Test021 == Test021Steps(Model2)

\* The requests of test_022_unload_all_models; named is what both of its
\* unload requests name.
Test022Steps(named) ==
    << [op |-> "unload", model |-> named, check |-> "none"],
       [op |-> "load", model |-> Model1, check |-> "none"],
       [op |-> "unload", model |-> named, check |-> "success"],
       [op |-> "health", model |-> None, check |-> "len0"] >>

\* Test022 with unload requests that name the model the test loads.
Test022NamingModel == Test022Steps(Model1)

\* test_022_unload_all_models: json={} names no model.
Test022 == Test022Steps(None)

\* The requests of test_019_multi_model_load after its opening request.
Test019Steps(opening) ==
    << opening,
       [op |-> "load", model |-> Model1, check |-> "success"],
       [op |-> "load", model |-> Model2, check |-> "success"],
       [op |-> "health", model |-> None, check |-> "both12"] >>

\* Test019 without its opening unload.
Test019NoUnload == Test019Steps([op |-> "none", model |-> None, check |-> "none"])

\* test_019_multi_model_load: it opens by unloading every model.
Test019 == Test019Steps([op |-> "unload", model |-> None, check |-> "none"])

StepsOf(t) ==
    IF t = "test_019" THEN Test019 ELSE IF t = "test_021" THEN Test021 ELSE Test022

\* The assertion after a request, on the health report or on the status of
\* the response.
Check(check, health, status) ==
    CASE check = "len2" -> Len(health) = 2
      [] check = "evicted1" ->
            /\ Len(health) = 2
            /\ Model2 \in Loaded(health) /\ Model3 \in Loaded(health)
            /\ Model1 \notin Loaded(health)
      [] check = "both12" ->
            /\ Len(health) = 2
            /\ Model1 \in Loaded(health) /\ Model2 \in Loaded(health)
      [] check = "success" -> status = "success"
      [] check = "len0" -> Len(health) = 0
      [] OTHER -> TRUE

apiTests == {"test_019", "test_021", "test_022", "test_008"}
Resting == client.test = "none" \/ client.verdict # "none"

\* A test method of LLMTests begins, on the server as the tests before it
\* left it.
BeginTest(t) ==
    /\ Resting
    /\ client' = [NoClient EXCEPT !.test = t]
    /\ UNCHANGED << server, restVars, callVars >>

\* A request of another test of the class, between two of these tests.
OtherRequest(op, mdl) ==
    /\ Resting
    /\ server' = Serve(server, [op |-> op, model |-> mdl])
    /\ UNCHANGED << client, restVars, callVars >>

\* The next request of test_021 or test_022 and the assertion after it; a
\* failed assertion ends the test.
TestRequest ==
    /\ client.test \in {"test_019", "test_021", "test_022"} /\ client.verdict = "none"
    /\ LET steps == StepsOf(client.test)
           req == steps[client.step + 1]
           srv == Serve(server, req)
           health == IF req.op = "health" THEN srv.loaded ELSE client.health
           ok == Check(req.check, health, srv.last.status)
       IN  /\ server' = srv
           /\ client' = [client EXCEPT
                             !.step = @ + 1,
                             !.health = health,
                             !.status = srv.last.status,
                             !.verdict = IF ~ok THEN "fail"
                                         ELSE IF client.step + 1 = Len(steps) THEN "pass"
                                         ELSE "none",
                             !.failed_at = IF ok THEN "none" ELSE req.check]
    /\ UNCHANGED << restVars, callVars >>

\* self.assertGreater(len(complete_response), 5)
MinLength == 5

\* The answers a model can give to RESPONSES_MESSAGES at temperature 0, as
\* sequences of distinct characters.
Answers == {[i \in 1..n |-> i] : n \in 0..MaxChars}

\* Concat with the delta put in front.
ConcatFront(text, delta) == delta \o text

\* complete_response += event.delta
Concat(text, delta) == text \o delta

\* The body of the loop of test_008_responses_api_streaming for one event.
OnEvent(c, ev) ==
    LET bad == IF c.event_count = 0
               THEN IF ev.type # "response.created" THEN "first_event" ELSE "none"
               ELSE IF ev.type = "response.output_text.delta" THEN "none"
               ELSE IF ev.type = "response.completed" /\ ev.text # c.complete_response
               THEN "text"
               ELSE "none"
    IN  [c EXCEPT !.complete_response =
                      IF c.event_count # 0 /\ ev.type = "response.output_text.delta"
                      THEN Concat(@, ev.delta) ELSE @,
                  !.event_count = IF bad = "none" THEN @ + 1 ELSE @,
                  !.last_event_type = IF bad = "none" THEN ev.type ELSE @,
                  !.verdict = IF bad = "none" THEN "none" ELSE "fail",
                  !.failed_at = bad]

\* test_008 sends its request with stream=True and temperature 0: the server
\* uses the model and opens the stream.
StreamRequest ==
    /\ client.test = "test_008" /\ client.verdict = "none" /\ client.step = 0
    /\ server' = [Serve(server, [op |-> "chat", model |-> Model1])
                     EXCEPT !.stream = "requested", !.sent = 0]
    /\ client' = [client EXCEPT !.step = 1]
    /\ UNCHANGED << restVars, callVars >>

\* The server sends the next event of its stream, a delta of k characters
\* while the answer is not sent in full, and the loop of the test takes it.
StreamEvent(k) ==
    /\ client.test = "test_008" /\ client.verdict = "none"
    /\ server.stream \in {"requested", "deltas"}
    /\ LET left == Len(server.answer) - server.sent
           ev == IF server.stream = "requested"
                 THEN [type |-> "response.created", delta |-> << >>, text |-> << >>]
                 ELSE IF left > 0
                 THEN [type |-> "response.output_text.delta",
                       delta |-> SubSeq(server.answer, server.sent + 1, server.sent + k),
                       text |-> << >>]
                 ELSE [type |-> "response.completed", delta |-> << >>,
                       text |-> server.answer]
       IN  /\ k \in (IF server.stream = "deltas" /\ left > 0 THEN 1..left ELSE {1})
           /\ server' = [server EXCEPT
                             !.stream = IF server.stream = "requested" THEN "deltas"
                                        ELSE IF left > 0 THEN "deltas" ELSE "done",
                             !.sent = IF server.stream = "deltas" /\ left > 0
                                      THEN @ + k ELSE @]
           /\ client' = OnEvent(client, ev)
    /\ UNCHANGED << restVars, callVars >>

\* The stream has ended: the two assertions after the loop.
StreamEnd ==
    /\ client.test = "test_008" /\ client.verdict = "none" /\ server.stream = "done"
    /\ LET bad == IF client.last_event_type # "response.completed" THEN "last_event"
                  ELSE IF ~(Len(client.complete_response) > MinLength) THEN "length"
                  ELSE "none"
       IN  client' = [client EXCEPT !.verdict = IF bad = "none" THEN "pass" ELSE "fail",
                                    !.failed_at = bad]
    /\ server' = [server EXCEPT !.stream = "none"]
    /\ UNCHANGED << restVars, callVars >>

\* A server just started for LLMTests, with some answer to the test's prompt.
InitApi ==
    /\ HarnessIdle /\ NoWait /\ NoCall
    /\ client = NoClient
    /\ server \in {[NoServer EXCEPT !.answer = a] : a \in Answers}

NextApi ==
    \/ \E t \in apiTests : BeginTest(t)
    \/ \E op \in {"load", "chat", "unload"}, mdl \in Models : OtherRequest(op, mdl)
    \/ OtherRequest("unload", None)
    \/ TestRequest
    \/ StreamRequest
    \/ \E k \in 1..MaxChars : StreamEvent(k)
    \/ StreamEnd

SpecApi == InitApi /\ [][NextApi]_vars

\* ================================================================ claims

\* C1: when a run driven by run_server_tests has exited, on whatever path
\* (tests passed, a test failed, setUpClass or setUp raised, KeyboardInterrupt),
\* stop_lemonade was invoked after the last test body.
C1_StopBeforeExit ==
    (suite = "server" /\ pc = "exited") => stopSinceBody

\* C1 witness: a class-level run interrupted after a test body, so that no
\* tearDownClass ran, still ended with a call of stop_lemonade.
C1_Witness ==
    /\ suite = "server" /\ pc = "exited"
    /\ exc = "KeyboardInterrupt" /\ testIdx >= 1
    /\ ~server_per_test /\ handle # 0
    /\ lastStop.fn = "stop_lemonade" /\ stopSinceBody

\* C2: no call of stop_lemonade lets an exception out, whatever the commands
\* it runs do (return 0 or non-zero, OSError, TimeoutExpired).
C2_StopNeverRaises ==
    lastStop.fn = "stop_lemonade" => ~lastStop.raised

\* C2 witness: a stop_lemonade that caught an exception of one of its
\* commands and returned normally, with no child left alive.
C2_Witness ==
    /\ lastStop.fn = "stop_lemonade" /\ lastStop.absorbed /\ ~lastStop.raised
    /\ spawned > 0 /\ AliveSet = {}

\* C3 as claimed: after two stops in succession nothing was raised and no
\* child launched by the harness is alive.
C3_StopTwiceLeavesNone ==
    (suite = "server" /\ stopsInRow >= 2) =>
        (~lastStop.raised /\ AliveSet = {})

\* C4 as claimed: at most one launched server process is alive at any time.
C4_AtMostOneAlive ==
    Cardinality(AliveSet) <= 1

Rank(st) == CASE st = "systemd" -> 1 [] st = "cli" -> 2 [] st = "signal" -> 3

\* The strategies of one stop call were attempted in the order (a), (b), (c).
InOrder(attempts) ==
    \A i, j \in 1..Len(attempts) : i < j => Rank(attempts[i]) < Rank(attempts[j])

\* C5 as claimed: a stop of a launched server attempts its strategies in the
\* order (a), (b), (c), and all three are available to it: the service manager
\* is tried (on Linux), and the child is signalled when no earlier strategy
\* has reported the server stopped.
C5_ThreeStrategiesInOrder ==
    (spawned > 0 /\ stopsInRow >= 1 /\ lastStop.binary # None) =>
        /\ InOrder(lastStop.attempts)
        /\ platform = "linux" => InSeq("systemd", lastStop.attempts)
        /\ lastStop.won \notin {"systemd", "cli"} => InSeq("signal", lastStop.attempts)

\* One pass over the strategies: at least one attempted, none twice, none
\* after one that reported the server stopped.
OnePass(st) ==
    /\ Len(st.attempts) >= 1
    /\ \A i, j \in 1..Len(st.attempts) : i # j => st.attempts[i] # st.attempts[j]
    /\ st.won # "none" => st.attempts[Len(st.attempts)] = st.won

\* C6 as claimed: every call of stop_lemonade performs exactly one cleanup
\* attempt, never zero.
C6_ExactlyOneAttempt ==
    lastStop.fn = "stop_lemonade" => OnePass(lastStop)

\* C6 as amended: a call of stop_lemonade with a server binary configured
\* performs exactly one pass over its strategies; a call with none configured
\* attempts nothing.
C6_OnePassWhenConfigured ==
    lastStop.fn = "stop_lemonade" =>
        IF lastStop.binary = None
        THEN lastStop.attempts = << >>
        ELSE OnePass(lastStop)

\* C6 witness: a configured stop_lemonade that ended at the service manager,
\* its first strategy, once that had stopped the service.
C6_Witness ==
    /\ lastStop.fn = "stop_lemonade" /\ lastStop.binary = Bin
    /\ lastStop.won = "systemd" /\ lastStop.attempts = << "systemd" >>

\* C7 as claimed: start_server hands back the handle without having waited
\* for the port: no readiness probe of its own precedes the return.
C7_StartReturnsUnprobed ==
    (suite = "server" /\ handle # 0) => ~probeOK

\* C7 as amended: start_server spawns the child and the two relay threads and
\* then blocks; it returns the handle only after wait_for_server saw the port
\* accept a connection and after the settle delay.
C7_StartReturnsAfterReady ==
    (suite = "server" /\ handle # 0) =>
        /\ handle = spawned /\ proc[handle] # "none"
        /\ Alive(handle) => relay[handle]
        /\ probeOK /\ settled

\* C7 witness: start_server returned a handle after sleeping through at
\* least one refused probe.
C7_Witness ==
    suite = "server" /\ handle # 0 /\ elapsed >= 1 /\ probeOK /\ settled

\* C8: wait_for_server returns True only on an accepted connection; it sleeps
\* the fixed backoff after every refused attempt and after nothing else; and
\* it raises TimeoutError, carrying its timeout, only once more than the
\* timeout has elapsed.
C8_WaitForServer ==
    /\ w_result.kind = "True" => w_conn = "accepted"
    /\ w_result.kind = "TimeoutError" =>
           (w_now > w_timeout /\ w_result.bound = w_timeout)
    /\ w_slept = Backoff * w_refused
    /\ (w_pc = "loop" /\ w_conn # "none") => w_conn = "refused"

\* C8 witness: the wait retried at least twice on a refused connection and
\* then timed out.
C8_Witness ==
    w_result.kind = "TimeoutError" /\ w_refused >= 2 /\ w_timeout >= 1

\* C9 as claimed: on every launch path the first request after the launch
\* comes after the settle delay.
C9_SettleBeforeFirstRequest ==
    firstReq # "unsettled"

\* C10 as claimed: a launched child is never blocked on a full output pipe
\* that no reader drains.
C10_NoUndrainedFullPipe ==
    \A p \in Pids, s \in Streams :
        (Alive(p) /\ pipe[p][s] = PipeCap) => reader[p][s] = "running"

\* C11: the relay threads are detached daemons. No stop waits for them:
\* wherever the harness is about to stop the server, the stop can run to its
\* end, and the final stop can go on to exit the process, whatever the
\* readers are doing (a reader blocked in a read included). An error inside
\* a reader ends it without a traceback and never becomes the harness
\* thread's exception.
C11_RelaysDetached ==
    /\ (suite = "server" /\ pc = "tearDown") => ENABLED TearDown
    /\ (suite = "server" /\ pc = "tearDownClass") => ENABLED TearDownClass
    /\ (suite = "server" /\ pc = "finally") => ENABLED FinalCleanup
    /\ \A p \in Pids, s \in Streams : reader[p][s] # "crashed"
    /\ exc \notin RelayErrs

\* C11 witness: the harness process has exited after its final stop_lemonade
\* while one reader of a live child was still blocked in a read of an empty
\* pipe and the other had been ended by an error.
C11_Witness ==
    /\ suite = "server" /\ pc = "exited" /\ lastStop.fn = "stop_lemonade"
    /\ \E p \in Pids :
          /\ Alive(p) /\ pipe[p]["stdout"] = 0
          /\ reader[p]["stdout"] = "running"
          /\ reader[p]["stderr"] = "swallowed"

\* C12: the lifecycle policy. In class-level mode setUpClass calls
\* start_server exactly once and no setUp or tearDown starts or stops a
\* server; in per-test mode setUpClass starts none, every setUp starts one
\* and every tearDown stops it; tearDownClass stops in both modes.
C12_LifecyclePolicy ==
    suite = "server" =>
        /\ ~server_per_test =>
              /\ life.classStarts = life.classSetUps
              /\ life.setUpStarts = 0 /\ life.setUpStops = 0
              /\ life.tearDownStops = 0
        /\ server_per_test =>
              /\ life.classStarts = 0
              /\ life.setUpStarts = life.setUps
              /\ life.tearDownStops = life.tearDowns
        /\ life.classSetUps <= 1
        /\ life.classEndStops = life.classEnds

\* C12 witness: a per-test run of two tests, each with its own start in
\* setUp and stop in tearDown, ended by tearDownClass.
C12_Witness ==
    /\ suite = "server" /\ server_per_test /\ pc = "exited"
    /\ life.setUps = MaxTests /\ life.setUpStarts = MaxTests
    /\ life.tearDownStops = MaxTests /\ life.classEndStops = 1

\* C13: the capability lookup is total. Every lookup a test's gate makes,
\* for a wrapped server or a feature absent from the matrix and with no
\* wrapped server selected too, answers supported or unsupported and never
\* raises; an unconfigured pair answers unsupported, and the test is skipped,
\* neither failed nor errored.
C13_LookupTotal ==
    /\ lastTest.lookup \in {"none", "supported", "unsupported"}
    /\ (lastTest.feature # None /\ ~Configured(lastTest.ws, lastTest.feature)) =>
           (lastTest.lookup = "unsupported" /\ lastTest.outcome = "skip")

\* C13 witness: a test decorated with a feature the matrix lists was gated
\* in a run of a wrapped server the matrix does not list, and was skipped.
C13_Witness ==
    /\ lastTest.ws = Unlisted /\ lastTest.feature = "chat_completions"
    /\ lastTest.lookup = "unsupported" /\ lastTest.outcome = "skip"
    /\ ~failed

\* C14 as claimed: the gate comes before any side-effecting setup. In
\* per-test mode a test that the gate has just skipped had no server started
\* (nor one stopped) on its behalf: it holds no server process.
C14_SkipBeforeSetup ==
    (suite = "server" /\ server_per_test /\ pc = "tearDown"
        /\ lastTest.outcome = "skip") =>
        handle = 0

\* C15 as claimed: a skip is neither a failure nor an error, a run without
\* failure or error exits with code 0, and run_server_tests exits with code 1
\* exactly when a test failed or errored or the runner produced no result.
C15_ExitOneIffFailedOrNoResult ==
    suite = "server" =>
        /\ failed <=> lastTest.outcome \in {"fail", "error"}
        /\ pc = "exited" =>
              /\ (~failed /\ exc = "none") => exitCode = 0
              /\ exitCode = 1 <=> (failed \/ exc # "none")

\* C15 as amended: a skip is neither a failure nor an error; when the runner
\* returns its result, run_server_tests exits with code 1 exactly when a test
\* failed or errored and with code 0 otherwise; when the runner produces no
\* result its exception leaves run_server_tests after the final stop, and
\* the process ends with the interpreter's non-zero status for it.
C15_ExitCodeOfResult ==
    suite = "server" =>
        /\ failed <=> lastTest.outcome \in {"fail", "error"}
        /\ pc = "exited" =>
              /\ exc = "none" => exitCode = (IF failed THEN 1 ELSE 0)
              /\ exc # "none" => exitCode \in UncaughtExit \ {0}

\* C15 witness: a run all of whose tests were skipped by the gate has exited
\* with code 0.
C15_Witness ==
    /\ suite = "server" /\ pc = "exited" /\ exitCode = 0
    /\ skipped = numTests /\ lastTest.outcome = "skip" /\ lastTest.feature # None

C17_CacheDirDeleted ==
    (fxTest.done /\ fxTest.dir) => (fxTest.rmCalls = 1 /\ ~fxTest.exists)

\* C17 as amended: every cache directory a fixture test created is handed to
\* exactly one call of shutil.rmtree by the time the test method exits,
\* whatever the test came to, and is gone unless that call itself failed; no
\* test calls rmtree without having created a directory.
C17_CacheDirRemovedOnce ==
    /\ (fxTest.done /\ fxTest.dir) =>
           (fxTest.rmCalls = 1 /\ (fxTest.exists <=> fxTest.rm = "error"))
    /\ ~fxTest.dir => (fxTest.rmCalls = 0 /\ ~fxTest.exists)
    /\ fxTest.rmCalls <= 1

\* C17 witness: a test whose readiness wait timed out has returned with its
\* cache directory deleted.
C17_Witness ==
    /\ fxTest.done /\ fxTest.dir /\ fxTest.launched /\ ~probeOK
    /\ lastTest.outcome = "error" /\ fxTest.rmCalls = 1 /\ ~fxTest.exists

\* C18: once a fixture test has launched the server, on every way out of the
\* test the server is stopped by the stop subcommand, then terminated and
\* waited for during the grace period, then killed if it outlived it; all
\* that before the cache directory is deleted; and the launched process is
\* not running when the test method returns.
C18_FixtureStopsServer ==
    (fxTest.launched /\ (pc = "fx_rmtree" \/ fxTest.done)) =>
        /\ fxTest.steps \in {<< "stop_server", "terminate", "wait" >>,
                              << "stop_server", "terminate", "wait", "kill" >>}
        /\ InSeq("kill", fxTest.steps) <=> fxTest.delay > GraceSeconds
        /\ ~Alive(fxTest.pid)
        /\ pc = "fx_rmtree" => (fxTest.rmCalls = 0 /\ fxTest.exists)

\* C18 witness: a test whose assertion failed has returned after its server
\* outlived the grace period and was killed.
C18_Witness ==
    /\ fxTest.launched /\ fxTest.done /\ lastTest.outcome = "fail"
    /\ InSeq("kill", fxTest.steps) /\ proc[fxTest.pid] = "exited"

\* C19 as claimed: the version tag of every hardware document written is
\* the version of the server binary.
C19_TagIsBinaryVersion ==
    fxTest.doc => fxTest.tag = << binVersion >>

\* C20 as claimed: the environment given to a server launched by a fixture
\* test never holds the CI-mode variable, whatever os.environ holds, and
\* holds the cache-directory variable set to the fixture's directory.
C20_FixtureEnvWithoutCiMode ==
    fxTest.launched =>
        /\ CiVar \notin DOMAIN fxTest.env
        /\ CacheVar \in DOMAIN fxTest.env
        /\ fxTest.env[CacheVar] = "temp_cache_dir"

\* A start_server of the run ended in the TimeoutError of wait_for_server:
\* the port did not open within the bound.
StartTimedOut == suite = "server" /\ life.startTimeouts > 0

\* C22: a startup timeout is fatal. Once start_server has timed out waiting
\* for the port, the class or the test it was started for is an error, no
\* test body runs from then on, the run is stopped, the final stop_lemonade
\* runs before the process exits, and the exit code is not 0: it is 1 unless
\* the run was interrupted as well.
C22_StartupTimeoutFatal ==
    StartTimedOut =>
        /\ failed /\ shouldStop
        /\ lastTest = [NoTest EXCEPT !.outcome = "error"]
        /\ life.startTimeouts = 1 /\ elapsed > MaxWait /\ ~probeOK
        /\ pc \in {"next_test", "tearDownClass", "finally", "exited"}
        /\ handle = 0
        /\ pc = "exited" =>
              /\ lastStop.fn = "stop_lemonade" /\ stopSinceBody
              /\ exitCode # 0
              /\ exc = "none" => exitCode = 1

\* C22 witness: in per-test mode the second test's server timed out after the
\* first test had passed; the run has exited with code 1.
C22_Witness ==
    /\ StartTimedOut /\ server_per_test /\ pc = "exited" /\ exitCode = 1
    /\ testIdx = 2 /\ spawned = 2 /\ life.setUps = 2 /\ life.tearDowns = 1

\* Some fixture test begins.
SomeFixtureBegin ==
    \E fx \in Fixtures, setup \in {"ok", "MkdtempError", "WriteError", "PopenError"} :
        FixtureBegin(fx, setup)

\* C23: under run_server_tests, whose runner is built with failfast, the
\* first failing or erroring test is the last test of the run: the run is
\* stopped and no setUp or test body follows; the tearDown of a test whose
\* assertion failed still runs (with its stop, in per-test mode), and so do
\* tearDownClass and the final stop_lemonade. The fixture suite, whose runner
\* has no failfast, goes on to its next test after a failure and exits only
\* when every test has run.
C23_FailFastStopsRun ==
    /\ (suite = "server" /\ failed) =>
           /\ shouldStop
           /\ lastTest.outcome \in {"fail", "error"}
           /\ pc \in {"tearDown", "next_test", "tearDownClass", "finally", "exited"}
    /\ (suite = "server" /\ lastTest.outcome = "fail" /\ exc = "none"
            /\ pc \in {"finally", "exited"}) =>
           /\ life.tearDowns = testIdx
           /\ server_per_test => life.tearDownStops = testIdx
           /\ life.classEndStops = 1
           /\ pc = "exited" => (lastStop.fn = "stop_lemonade" /\ stopSinceBody)
    /\ suite = "fixture" =>
           /\ ~shouldStop
           /\ (pc = "fx_next" /\ testIdx < numTests) => ENABLED SomeFixtureBegin
           /\ pc = "exited" => testIdx = numTests

\* C23 witness: in per-test mode the first of two tests failed its assertion;
\* its tearDown stopped the server, the second test never ran, and the run
\* has exited with code 1 after tearDownClass and the final stop.
C23_Witness ==
    /\ suite = "server" /\ server_per_test /\ numTests = 2 /\ pc = "exited"
    /\ lastTest.outcome = "fail" /\ testIdx = 1 /\ life.setUps = 1
    /\ life.tearDownStops = 1 /\ life.classEndStops = 1 /\ exitCode = 1

\* C30: every launch of a server comes after a stop with no other launch in
\* between: when a child is launched, on either suite, the harness has
\* called a stop since the previous launch (or since the start of the run),
\* and that stop attempted at least one strategy.
C30_StopBeforeEveryStart ==
    [][(spawned' > spawned) =>
          (stopsInRow >= 1 /\ lastStop.fn # "none" /\ lastStop.attempts # << >>)]_vars

\* C30 witness: the second fixture test has launched its server, after the
\* stop that ended the first test and before any other stop.
C30_Witness ==
    /\ suite = "fixture" /\ spawned = 2 /\ pc = "fx_wait" /\ stopsInRow = 0
    /\ lastStop.fn = "fixture" /\ proc[1] = "exited"

\* C29: the service-manager strategy is best-effort. Off Linux it runs no
\* command and reports not-stopped. On Linux it runs "systemctl stop" only
\* after an is-active that answered 0, reports stopped only when that stop
\* returned 0, and reports not-stopped, raising nothing, on an OSError or a
\* timeout of either command. stop_lemonade runs "<binary> stop" exactly when
\* it has called the strategy and the strategy reported not-stopped.
C29_SystemdBestEffort ==
    /\ ret.fn = "_stop_server_via_systemd" =>
           /\ call.plat # "linux" => (ret.val.cmds = << >> /\ ~ret.val.ret)
           /\ InSeq("stop", ret.val.cmds) =>
                  (call.plat = "linux" /\ call.isActive = "rc0"
                      /\ ret.val.cmds = << "is-active", "stop" >>)
           /\ ret.val.ret <=>
                  (InSeq("stop", ret.val.cmds) /\ call.sysStop = "rc0")
           /\ ~ret.val.raised
           /\ ret.val.absorbed => ~ret.val.ret
    /\ ret.fn = "stop_lemonade" =>
           (InSeq("cli", ret.val.attempts) <=>
               /\ call.binary # None
               /\ ~StopViaSystemd(call.plat, call.isActive, call.sysStop).ret)

\* C29 witness: on Linux the service was active and "systemctl stop" timed
\* out: the strategy reported not-stopped without raising.
C29_Witness ==
    /\ ret.fn = "_stop_server_via_systemd" /\ call.plat = "linux"
    /\ call.isActive = "rc0" /\ call.sysStop = "TimeoutExpired"
    /\ ~ret.val.ret /\ ret.val.absorbed /\ ~ret.val.raised

\* The value start_server works with: the argument, or the run configuration's
\* when the argument is None.
Effective(arg, configured) == IF arg = None THEN configured ELSE arg

\* C27: the command start_server builds is the binary and "serve", then
\* possibly --no-tray, then --log-level debug, then --port P exactly when P
\* is not the default port, then --llamacpp B exactly when the wrapped
\* server is llamacpp and a backend is set, then --sdcpp B exactly when it is
\* sd-cpp and a backend is set, then the additional arguments: those given,
\* the run configuration's when None is given, and from setUpClass and setUp
\* the run's followed by the class's. Binary, wrapped server and backend left
\* as None are the run configuration's.
C27_ServeCommand ==
    ret.fn = "start_server" =>
        LET a == call.a
            binary == Effective(a.server_binary, call.cfg.server_binary)
            wrapped == Effective(a.wrapped_server, call.cfg.wrapped_server)
            backend == Effective(a.backend, call.cfg.backend)
            isSet == backend # None /\ backend # ""
            extras == IF call.via # "direct"
                      THEN call.cfg.additional_server_args \o call.clsArgs
                      ELSE IF a.argsGiven THEN a.additional_args
                      ELSE call.cfg.additional_server_args
            rest == << "--log-level", "debug" >>
                      \o (IF a.port # DefaultPort THEN << "--port", a.port >> ELSE << >>)
                      \o (IF wrapped = "llamacpp" /\ isSet
                          THEN << "--llamacpp", backend >> ELSE << >>)
                      \o (IF wrapped = "sd-cpp" /\ isSet
                          THEN << "--sdcpp", backend >> ELSE << >>)
                      \o extras
        IN  /\ ret.val \in {<< binary, "serve" >> \o rest,
                             << binary, "serve", "--no-tray" >> \o rest}
            /\ ~(InSeq("--llamacpp", ret.val) /\ InSeq("--sdcpp", ret.val))

\* C27 witness: setUpClass of LLMTests, in a run with additional arguments
\* of its own and the llamacpp backend rocm configured, built a command that
\* ends with the run's arguments followed by the class's.
C27_Witness ==
    /\ ret.fn = "start_server" /\ call.via = "setUpClass"
    /\ call.host.osname = "posix" /\ call.host.ci = None
    /\ ret.val = << Bin, "serve", "--log-level", "debug", "--llamacpp", "rocm",
                    "--offline", "--max-loaded-models", "2" >>

\* C28 as claimed: on both launch paths and every platform, a harness that
\* runs headless or under continuous integration puts --no-tray in the serve
\* command.
C28_NoTrayWhenHeadlessOrCi ==
    (ret.fn \in {"start_server", "run_test_with_mock_hardware"}
        /\ (call.host.headless \/ Truthy(call.host.ci))) =>
        InSeq("--no-tray", ret.val)

\* C28 as amended: start_server puts --no-tray in the serve command, right
\* after "serve", exactly when the harness runs on Windows or the CI-mode
\* variable is set to a non-empty value, whether the host has a display or
\* not; the launch of a fixture test always puts it there.
C28_NoTrayOnWindowsOrCi ==
    /\ ret.fn = "start_server" =>
           /\ InSeq("--no-tray", ret.val) <=>
                  (call.host.osname = "nt" \/ call.host.ci \notin {None, ""})
           /\ InSeq("--no-tray", ret.val) => ret.val[3] = "--no-tray"
    /\ ret.fn = "run_test_with_mock_hardware" => ret.val[3] = "--no-tray"

\* C28 witness: on a host with a display that is not Windows, with the
\* CI-mode variable set, setUp built a command with --no-tray after "serve".
C28_Witness ==
    /\ ret.fn = "start_server" /\ call.via = "setUp" /\ ~call.host.headless
    /\ call.host.osname = "posix" /\ call.host.ci = "1"
    /\ ret.val[3] = "--no-tray"

\* The pairs a fixture must see supported, and must see unsupported.
MustSupport(fx) ==
    {p \in Pairs : p[1] \in DOMAIN ExpectedSupported(fx)
                      /\ p[2] \in ExpectedSupported(fx)[p[1]]}
MustUnsupport(fx) ==
    {p \in Pairs : p[1] \in DOMAIN ExpectedUnsupported(fx)
                      /\ p[2] \in ExpectedUnsupported(fx)[p[1]]}

\* How a report marks a pair: supported, unsupported (its entry says false,
\* or has no "supported" key, which reads as false), or not at all.
Marks(resp, p) ==
    IF p[1] \notin resp.recipes \/ resp.flag[p] = "absent" THEN "unmarked"
    ELSE IF resp.flag[p] = "true" THEN "supported"
    ELSE "unsupported"

\* C21: for every fixture and every capability report, the assertions of
\* the fixture test pass exactly when the report marks supported every pair
\* the fixture must see supported and marks unsupported every pair it must
\* see unsupported; a recipe the fixture lists in either set and the report
\* lacks fails the test. A response that is no report (not status 200, or
\* without a recipes section) fails it too.
C21_ReportVerdict ==
    ret.fn = "assert_report" =>
        LET fx == call.fixture
            resp == call.resp
            listed == DOMAIN ExpectedSupported(fx) \cup DOMAIN ExpectedUnsupported(fx)
        IN  /\ (resp.status = 200 /\ resp.hasRecipes) =>
                   /\ ret.val = "pass" <=>
                          /\ \A p \in MustSupport(fx) : Marks(resp, p) = "supported"
                          /\ \A p \in MustUnsupport(fx) : Marks(resp, p) = "unsupported"
                   /\ (\E r \in listed : r \notin resp.recipes) => ret.val = "fail"
            /\ (resp.status # 200 \/ ~resp.hasRecipes) => ret.val = "fail"

\* C21 witness: the report marks every pair as the Linux fixture expects,
\* and the assertions pass.
C21_Witness ==
    /\ ret.fn = "assert_report" /\ call.fixture = "linux_x86_no_gpu"
    /\ ret.val = "pass"
    /\ call.resp.flag[<< "llamacpp", "vulkan" >>] = "true"
    /\ call.resp.flag[<< "llamacpp", "metal" >>] = "false"
    /\ call.resp.flag[<< "flm", "default" >>] = "false"

\* C24: LRU eviction. With max-loaded-models 2, once test_021 has unloaded
\* everything, loaded model1, then model2, sent a request to model2 and loaded
\* model3, the loaded models are exactly model2 and model3 and model1 is the
\* model that was evicted, whatever the tests before it left loaded; the
\* health report of the test says so and the test passes; and the server
\* never holds more than 2 loaded models.
C24_LruEviction ==
    /\ Len(server.loaded) <= 2
    /\ (client.test = "test_021" /\ client.step = 6) =>
           /\ Loaded(server.loaded) = {Model2, Model3}
           /\ server.last.evicted = Model1
    /\ (client.test = "test_021" /\ client.step = 7) =>
           /\ Loaded(client.health) = {Model2, Model3}
           /\ client.verdict = "pass"
           /\ server.last.op = "health" => server.loaded = client.health
    /\ (client.test = "test_021" /\ client.verdict # "none") => client.step = 7

\* C24 witness: test_021 has passed, its last health report listing model2
\* and model3, right after the load of model3 evicted model1.
C24_Witness ==
    /\ client.test = "test_021" /\ client.verdict = "pass"
    /\ server.last.op = "health"
    /\ server.loaded = << Model2, Model3 >>
    /\ client.health = << Model2, Model3 >>

\* C25: right after an unload request that names no model, whatever was
\* loaded before, the response says success and no model is loaded; the
\* health report test_022 reads after its unload lists no model, and the
\* test passes.
C25_UnloadAll ==
    /\ (server.last.op = "unload" /\ server.last.model = None) =>
           (server.last.status = "success" /\ server.loaded = << >>)
    /\ (client.test = "test_022" /\ client.step = 3) =>
           (client.status = "success" /\ server.loaded = << >>)
    /\ (client.test = "test_022" /\ client.verdict # "none") =>
           (client.step = 4 /\ client.health = << >> /\ client.verdict = "pass")

\* C25 witness: test_022 has passed.
C25_Witness ==
    /\ client.test = "test_022" /\ client.verdict = "pass" /\ client.step = 4
    /\ server.last.op = "health" /\ server.loaded = << >>

\* C26: within one stream, the deltas received so far, concatenated in the
\* order of receipt, are the part of the answer sent so far; once the stream
\* has ended they are the whole answer, the text of the completed event and
\* of the response without streaming for the same parameters at temperature
\* 0. The first event of the stream is the created event and the last is
\* the completed event: neither assertion of the test on them fails.
C26_StreamReproducesAnswer ==
    client.test = "test_008" =>
        /\ client.step = 1 =>
               client.complete_response = SubSeq(server.answer, 1, server.sent)
        /\ (client.step = 1 /\ server.stream \in {"done", "none"}) =>
               /\ client.complete_response = server.answer
               /\ client.last_event_type = "response.completed"
        /\ client.failed_at \in {"none", "length"}
        /\ client.verdict = "pass" =>
               (client.complete_response = server.answer
                   /\ Len(server.answer) > MinLength)

\* C26 witness: test_008 has passed after receiving the answer in more than
\* two deltas.
C26_Witness ==
    /\ client.test = "test_008" /\ client.verdict = "pass"
    /\ client.event_count > 4 /\ client.complete_response = server.answer

\* C31 as claimed: whenever wait_for_server returns to start_server, the
\* listener that accepted its probe is the child start_server just spawned.
C31_ProbeAcceptedByOwnChild ==
    [][(pc = "start_wait" /\ pc' = "start_settle") => proc[spawned] = "listening"]_vars

C33_TimedOutChildNotOrphaned ==
    (suite = "server" /\ pc = "exited" /\ StartTimedOut) => ~Alive(spawned)

\* C34 as claimed: once run_server_tests has applied the command line and
\* its overrides, the selection of the capability gate is the selection of
\* the run configuration.
C34_GateSelectionIsConfig ==
    ret.fn = "run_server_tests" => ret.val.gate = ret.val.config

\* C35: fixture injection leaves the harness's own environment unchanged. No
\* step of a run of the fixture tests changes os.environ, and the
\* environment of every child a fixture test prepares is os.environ as the
\* run began with the cache directory overridden: the override of an earlier
\* fixture test is in nothing a later launch inherits.
C35_InjectionLeavesEnviron ==
    /\ [][environ' = environ]_vars
    /\ [](fxTest.doc /\ fxTest.env # << >> =>
            /\ DOMAIN fxTest.env = environ \cup {CacheVar}
            /\ fxTest.env[CacheVar] = "temp_cache_dir"
            /\ \A n \in environ \ {CacheVar} : fxTest.env[n] = EnvValue(n))

\* C35 witness: a second fixture test has launched its server with the cache
\* directory overridden, in a run whose own environment does not set it.
C35_Witness ==
    /\ suite = "fixture" /\ testIdx = 1 /\ fxTest.launched /\ pc = "fx_wait"
    /\ CacheVar \notin environ
    /\ fxTest.env[CacheVar] = "temp_cache_dir"

\* The models loaded after request k of a multi-model test that began on a
\* server with none loaded.
LoadedAfter(t, k) ==
    CASE k = 1 -> << >>
      [] k = 2 -> << Model1 >>
      [] t = "test_022" -> << >>
      [] t = "test_021" /\ k >= 6 -> << Model2, Model3 >>
      [] OTHER -> << Model1, Model2 >>

MultiModelTests == {"test_019", "test_021", "test_022"}

\* C36: each multi-model test tolerates the server as earlier tests left it.
\* Whatever tests and requests came before, in whatever order, its first
\* request leaves no model loaded, the models loaded after each of its
\* requests are those it would have on a fresh server, every health report
\* it asserts on lists exactly those (model1 and model2 after the two loads,
\* model2 and model3 after the eviction, none after the unload of all), and
\* the test passes.
C36_ToleratesEarlierTests ==
    client.test \in MultiModelTests =>
        /\ (client.step >= 1 /\ (client.verdict = "none" \/ server.last.op = "health")) =>
               server.loaded = LoadedAfter(client.test, client.step)
        /\ (client.step >= 1 /\ StepsOf(client.test)[client.step].op = "health") =>
               client.health = LoadedAfter(client.test, client.step)
        /\ client.verdict # "none" =>
               (client.verdict = "pass" /\ client.step = Len(StepsOf(client.test)))

\* C36 witness: test_019 has passed, the health report it asserted on
\* listing model1 and model2 and nothing else.
C36_Witness ==
    /\ client.test = "test_019" /\ client.verdict = "pass"
    /\ client.health = << Model1, Model2 >>
    /\ server.last.op = "health" /\ server.loaded = << Model1, Model2 >>

\* C37: in the assertions on a capability report, a backend the fixture
\* lists in either set and the report of its recipe lacks fails the test; an
\* entry without the supported field counts as unsupported: under a
\* must-support expectation it fails the test, and under a must-unsupport
\* expectation it is accepted as an entry marked false is.
C37_AbsentAndFieldless ==
    (ret.fn = "assert_report" /\ call.resp.status = 200 /\ call.resp.hasRecipes) =>
        LET fx == call.fixture
            resp == call.resp
            listed == MustSupport(fx) \cup MustUnsupport(fx)
        IN  /\ (\E p \in listed : p[1] \in resp.recipes /\ resp.flag[p] = "absent") =>
                   ret.val = "fail"
            /\ (\E p \in MustSupport(fx) : resp.flag[p] = "nokey") => ret.val = "fail"
            /\ (/\ \A p \in listed : p[1] \in resp.recipes
                /\ \A p \in MustSupport(fx) : resp.flag[p] = "true"
                /\ \A p \in MustUnsupport(fx) : resp.flag[p] \in {"false", "nokey"}) =>
                   ret.val = "pass"

\* C37 witness: the report has an entry without the supported field for a
\* backend the Linux fixture must see unsupported, and the assertions pass.
C37_Witness ==
    /\ ret.fn = "assert_report" /\ call.fixture = "linux_x86_no_gpu"
    /\ ret.val = "pass"
    /\ call.resp.flag[<< "llamacpp", "metal" >>] = "nokey"
    /\ call.resp.flag[<< "flm", "default" >>] = "false"

\* The tokens of an output that start with a digit, by their place among
\* its items.
DigitPlaces(out) == {i \in 1..Len(out) : out[i] \in Versions}
\* The output holds the word version, in either case.
SaysVersion(out) == \E i \in 1..Len(out) : out[i] \in {"version", "Version"}
\* sq is out without the whitespace at its two ends.
IsTrimmed(sq, out) ==
    /\ sq # << >> => (sq[1] # Blank /\ sq[Len(sq)] # Blank)
    /\ \E lead, trail \in 0..Len(out) :
          /\ lead + Len(sq) + trail = Len(out)
          /\ \A i \in 1..Len(out) :
                IF i > lead /\ i <= lead + Len(sq) THEN out[i] = sq[i - lead]
                ELSE out[i] = Blank

\* C38: get_server_version never raises. When the command fails or times
\* out it returns the fallback 9.0.0. When the output holds the word
\* version and a token that starts with a digit, it returns the first such
\* token; when it holds no such token, or not the word, it returns the whole
\* output trimmed of the whitespace at its ends.
C38_GetServerVersion ==
    ret.fn = "get_server_version" =>
        LET out == call.run.out
            places == DigitPlaces(out)
        IN  /\ ~ret.raised
            /\ call.run.exc # "none" => ret.val = << "9.0.0" >>
            /\ (call.run.exc = "none" /\ SaysVersion(out) /\ places # {}) =>
                   \E i \in places :
                       /\ ret.val = << out[i] >>
                       /\ \A j \in places : i <= j
            /\ (call.run.exc = "none" /\ ~(SaysVersion(out) /\ places # {})) =>
                   IsTrimmed(ret.val, out)

\* C38 witness: the output has whitespace at its ends, the word with a
\* capital and two tokens that start with a digit, and the first of them is
\* returned.
C38_Witness ==
    /\ ret.fn = "get_server_version"
    /\ call.run.out = << Blank, "Version", "10.2.1", "9.0.0" >>
    /\ ret.val = << "10.2.1" >>

====
